---- MODULE Spec2Model ----
(***************************************************************************)
(* The inbound message pipeline of ax_agent_studio.queue_manager:          *)
(* QueueManager.run starts with the startup sweep and then runs the poller *)
(* (poll_and_store) and the processor (process_queue) as cooperative       *)
(* asyncio tasks over one MessageStore.  A task runs without interruption  *)
(* from one await (remote call, handler call, sleep) to the next, so each  *)
(* action below is the code between two awaits.  The MessageStore calls    *)
(* are synchronous.                                                        *)
(***************************************************************************)
EXTENDS Integers, Sequences, FiniteSets, TLC

-----------------------------------------------------------------------------
(* Bounds of the model *)

\* fresh mentions the remote service delivers during one run
MaxNew == 2
\* cap of _poll_consecutive_errors
MaxPollErrors == 7
\* the largest retry_after a rate-limit payload carries
MaxRetryAfter == 90
\* the largest configured startup_sweep_limit
MaxSweepLimit == 2

(* Program constants *)

\* get_pending_messages(..., limit=100, ...)
BatchLimit == 100
\* if backlog > 100
BacklogThreshold == 100
\* self._poll_backoff = 5
PollBackoffInitial == 5
\* self._poll_backoff_max = 60
poll_backoff_max == 60
\* rate-limit wait when the payload carries no retry_after
DefaultRetryAfter == 30
\* max_iterations = 200 in _startup_sweep
max_iterations == 200

\* the largest backlog found in the (persistent) store at construction
LargestBacklog == 150

\* the constructions explored: the seeded backlog, startup_sweep and
\* startup_sweep_limit (0 = unlimited)
InitConfigs ==
    { [seeded |-> 0, startup_sweep |-> TRUE, startup_sweep_limit |-> 0],
      [seeded |-> 0, startup_sweep |-> TRUE, startup_sweep_limit |-> MaxSweepLimit],
      [seeded |-> 0, startup_sweep |-> FALSE, startup_sweep_limit |-> MaxSweepLimit],
      [seeded |-> BacklogThreshold - 1, startup_sweep |-> FALSE, startup_sweep_limit |-> MaxSweepLimit],
      [seeded |-> LargestBacklog, startup_sweep |-> FALSE, startup_sweep_limit |-> MaxSweepLimit] }

RetryAfters == {1, 27, MaxRetryAfter}

Statuses == {"pending", "processing", "processed", "failed"}

Min(a, b) == IF a <= b THEN a ELSE b

Reverse(s) == [i \in 1..Len(s) |-> s[Len(s) + 1 - i]]

-----------------------------------------------------------------------------
(* MessageStore: the table of queued messages, one row [id, timestamp,     *)
(* status] per message, in insertion order.                                *)

StoredIds(s) == {s[k].id : k \in 1..Len(s)}

\* the row of a stored id
RowOf(s, id) == s[CHOOSE k \in 1..Len(s) : s[k].id = id]

\* the timestamp the store's clock gives the next inserted row
NextTimestamp(s) == IF s = << >> THEN 1 ELSE s[Len(s)].timestamp + 1

\* store_message(...) -> bool: false when the id is already stored
StoreSucceeds(s, id) == id \notin StoredIds(s)

\* the table after store_message(id, ...)
StoreMessage(s, id) ==
    IF id \in StoredIds(s)
      THEN s
      ELSE Append(s, [id |-> id, timestamp |-> NextTimestamp(s), status |-> "pending"])

IsPending(row) == row.status = "pending"

\* get_backlog_count(agent): the number of pending messages
GetBacklogCount(s) == Len(SelectSeq(s, IsPending))

\* the place of row k in ascending timestamp order (ties keep insertion order)
RankByTimestamp(rows, k) ==
    1 + Cardinality({j \in 1..Len(rows) :
                        \/ rows[j].timestamp < rows[k].timestamp
                        \/ (rows[j].timestamp = rows[k].timestamp /\ j < k)})

\* ORDER BY timestamp ASC: rows already in order are returned as they are
OrderByTimestamp(rows) ==
    IF \A k \in 1..(Len(rows) - 1) : rows[k].timestamp <= rows[k + 1].timestamp
      THEN rows
      ELSE [p \in 1..Len(rows) |->
              rows[CHOOSE k \in 1..Len(rows) : RankByTimestamp(rows, k) = p]]

\* get_pending_messages(agent, limit, order): [id, timestamp] of the first
\* limit pending rows by timestamp, ascending or descending
GetPendingMessages(s, limit, order) ==
    LET pending == SelectSeq(s, IsPending)
        asc == OrderByTimestamp(pending)
        all == IF order = "asc" THEN asc ELSE Reverse(asc)
    IN  [k \in 1..Min(limit, Len(all)) |->
            [id |-> all[k].id, timestamp |-> all[k].timestamp]]

\* the table after mark_processing_started(id) for every id of ids
MarkProcessingStarted(s, ids) ==
    [k \in 1..Len(s) |->
        IF s[k].id \in ids THEN [s[k] EXCEPT !.status = "processing"] ELSE s[k]]

\* the table after mark_processed(id) for every id of ids
MarkProcessed(s, ids) ==
    [k \in 1..Len(s) |->
        IF s[k].id \in ids THEN [s[k] EXCEPT !.status = "processed"] ELSE s[k]]

\* a store holding n pending messages with ids and timestamps 1..n
SeededStore(n) ==
    [i \in 1..n |-> [id |-> i, timestamp |-> i, status |-> "pending"]]

-----------------------------------------------------------------------------
(* Poll failures.  An exception of session.call_tool is described by what  *)
(* _parse_error_and_get_wait_time looks for in str(error): the rate-limit  *)
(* markers, the JSON payload, the timeout markers, the connection markers. *)

ErrorInputs ==
    { e \in [ rate : BOOLEAN,
              json : {"none", "invalid", "no_retry_after", "retry_after"},
              retry_after : RetryAfters,
              timeout : BOOLEAN,
              conn : BOOLEAN ] :
        e.json # "retry_after" => e.retry_after = MaxRetryAfter }

\* _parse_error_and_get_wait_time(error) -> (error_type, wait_seconds)
ParseErrorAndGetWaitTime(e, backoff) ==
    IF e.rate
      THEN IF e.json = "retry_after"
             THEN <<"rate_limit", e.retry_after>>
             ELSE <<"rate_limit", DefaultRetryAfter>>
    ELSE IF e.timeout
      THEN <<"connection_timeout", Min(backoff, poll_backoff_max)>>
    ELSE IF e.conn
      THEN <<"connection_error", Min(backoff, poll_backoff_max)>>
    ELSE <<"unknown", Min(backoff, poll_backoff_max)>>

\* mutant: the doubling is not capped
NextBackoff_uncapped(backoff) == backoff * 2

\* self._poll_backoff = min(self._poll_backoff * 2, self._poll_backoff_max)
NextBackoff(backoff) == Min(backoff * 2, poll_backoff_max)

-----------------------------------------------------------------------------
VARIABLES
    store,                    \* self.store: the MessageStore table
    seeded,                   \* number of messages in the store at construction
    startup_sweep,            \* self.startup_sweep
    startup_sweep_limit,      \* self.startup_sweep_limit
    runPc,                    \* run(): "sweep_top", "sweep_call", "tasks", "done"
    iteration,                \* _startup_sweep: iteration
    fetched,                  \* _startup_sweep: fetched
    pollerPc,                 \* poll_and_store: "idle", "loop", "call", "wait", "stopped"
    poll_backoff,             \* self._poll_backoff
    poll_consecutive_errors,  \* self._poll_consecutive_errors
    error_type,               \* poll_and_store: error_type, while it sleeps
    wait_seconds,             \* poll_and_store: wait_seconds, while it sleeps
    last_check,               \* history: outcome of the latest remote check
    streak,                   \* history: the current run of failed polls
    procPc,                   \* process_queue: "idle", "loop", "handler", "send", "stopped"
    backlog,                  \* process_queue: backlog
    processing_order,         \* process_queue: processing_order
    all_pending,              \* process_queue: all_pending
    handler_input,            \* the argument of the handler call in flight
    handler_calls,            \* history: number of handler calls so far
    handled,                  \* history: ids passed to some handler call
    redelivered,              \* history: ids passed to more than one handler call
    last_send,                \* history: arguments of the latest reply send
    order_log,                \* history: processing_order of the previous and the latest batch
    response,                 \* history: what the handler returned for the latest batch
    sends,                    \* history: reply sends issued for the latest batch
    outcome,                  \* history: how the latest pass of the processor ended (the log line)
    hbPc                      \* heartbeat(): "disabled" (heartbeat_interval = 0), "idle", "sleep", "ping", "stopped"

-----------------------------------------------------------------------------
(* The session supervisor, ax_agent_studio.mcp_manager.MCPServerManager,   *)
(* and its LivenessRegistry (ax_agent_studio.monitoring.liveness).  A text *)
(* is a tuple of characters, so that str.startswith and the substring test *)
(* of _maybe_start_heartbeat are computed on the characters.               *)

\* max_operation_retries: int = 3
max_operation_retries == 3

\* reconnect_backoff: float = 2.0
reconnect_backoff == 2

\* the callers that may have an operation of the supervisor in flight
NumCallers == 2
Callers == 1..NumCallers

AxPrefix == <<"a", "x", "-">>
McpRemote == <<"m", "c", "p", "-", "r", "e", "m", "o", "t", "e">>

\* the mcpServers entries of the agent configs explored: (name, args)
AxGcp == [name |-> <<"a", "x", "-", "g", "c", "p">>,
          args |-> << <<"-", "y">>, <<"s", "r", "v">> >>]
Proxy == [name |-> <<"p", "r", "o", "x", "y">>,
          args |-> << <<"-", "y">>, McpRemote, <<"u", "r", "l">> >>]
Bridge == [name |-> <<"b", "r", "i", "d", "g", "e">>,
           args |-> << <<"@", "a", "/">> \o McpRemote \o <<"@", "1">> >>]
Filesystem == [name |-> <<"f", "i", "l", "e", "s">>,
               args |-> << <<"-", "y">>, <<"/", "t", "m", "p">> >>]
Axe == [name |-> <<"a", "x", "e">>,
        args |-> << <<"m", "c", "p", "_", "r", "e", "m", "o", "t", "e">> >>]

\* a server name no config has
Ghost == <<"g", "h", "o", "s", "t">>

\* the constructions explored: the config's mcpServers (in file order) and
\* heartbeat_interval (0 = disabled)
SupConfigs ==
    { [mcpServers |-> <<Filesystem>>, heartbeat_interval |-> 0],
      [mcpServers |-> <<AxGcp, Filesystem>>, heartbeat_interval |-> 240],
      [mcpServers |-> <<Proxy>>, heartbeat_interval |-> 240],
      [mcpServers |-> <<Axe>>, heartbeat_interval |-> 240],
      [mcpServers |-> <<Bridge>>, heartbeat_interval |-> 0] }

\* self.exit_stack = None, and a new AsyncExitStack()
NoStack == [created |-> FALSE, contexts |-> << >>]
EmptyStack == [created |-> TRUE, contexts |-> << >>]

\* connect_all() is called without a disconnect_all() before it only while
\* that loses at most this many open contexts
MaxLeaked == 1

\* an empty dict
EmptyDict == [k \in {} |-> 0]

\* the most session objects that are open, or were lost open, at one time
MaxSessions == 3

VARIABLES
    mcpServers,          \* self.config["mcpServers"], as a list of (name, args)
    heartbeat_interval,  \* HeartbeatManager(interval=heartbeat_interval)
    config,              \* self.config: None (loaded FALSE) or the parsed file, with or without its mcpServers key
    sessions,            \* self.sessions: name -> session object
    server_states,       \* self.server_states: name -> ServerConnectionState
    exit_stack,          \* self.exit_stack: None (created FALSE), or the contexts it holds
    heartbeat_tasks,     \* heartbeat_manager: name -> the session it pings
    records,             \* self.liveness._records: name -> LivenessRecord
    now,                 \* datetime.now(UTC), in seconds
    emitted,             \* history: the (name, state) the registry emitted
    leaked,              \* history: open contexts of exit stacks that were replaced
    hb_started,          \* history: sessions of the table that were passed to heartbeat_manager.start
    supPc,               \* connect_all: "idle", or "connecting"
    connect_index,       \* connect_all: position in the mcpServers loop
    ops,                 \* per caller: the operation it has in flight
    last_api,            \* history: the call that returned last, if none began since, and how often in a row
    connect_results      \* history: what each connect of the latest connect_all reported

\* the registry on its own: its callback and lock, and its callers' history
VARIABLES
    state_callback,      \* self._state_callback is set
    lock,                \* self._lock is held
    reg_call,            \* history: the registry call made last, if no time passed since
    since_beat,          \* history: name -> miss() calls since the latest beat() or register()
    beat_at              \* history: name -> time of the latest beat() since register(), or -1

regVars == <<state_callback, lock, reg_call, since_beat, beat_at>>

\* _parse_message on its own: its argument and what it returned
VARIABLES
    payload,             \* result: the value the messages tool returned
    parse_result         \* the return value of _parse_message(result), once it has run

parseVars == <<payload, parse_result>>

\* a tool result without messages, events or content
NoPayload == [messages |-> << >>, events |-> << >>, content |-> << >>]

\* _parse_message has not run
Unparsed == [kind |-> "unparsed"]

ParseInit ==
    /\ payload = NoPayload
    /\ parse_result = Unparsed

\* the supervisor without its registry
managerVars == <<config, mcpServers, heartbeat_interval, sessions, server_states,
                 exit_stack, heartbeat_tasks, leaked, hb_started, supPc,
                 connect_index, ops, last_api, connect_results>>

supVars == <<config, mcpServers, heartbeat_interval, sessions, server_states,
             exit_stack, heartbeat_tasks, records, now, emitted, leaked,
             hb_started, supPc, connect_index, ops, last_api, connect_results,
             regVars>>

\* a registry call: what was called for which name, how the callback ended
\* if the call called it, whether the call returned or raised, and for
\* summary() the items it returned, by name
NoRegCall == [op |-> "none", name |-> << >>, callback |-> "none",
              result |-> "none", summary |-> EmptyDict]

\* LivenessRegistry(domain, on_state_change): no records, the lock free
RegInit(callback) ==
    /\ state_callback = callback
    /\ lock = FALSE
    /\ reg_call = NoRegCall
    /\ since_beat = EmptyDict
    /\ beat_at = EmptyDict

\* one _execute_with_retry call: its arguments and locals, and as history
\* what its attempts did: how often the operation was invoked and how often
\* it failed, how the latest failed attempt failed ("timeout", "error" of
\* the operation, "no_session" from _ensure_session), the connects the
\* current attempt made and the seconds slept before each of them, the
\* sleeps between attempts in units of reconnect_backoff, whether
\* the latest failed attempt closed the session it popped, and the session
\* table the call found; result is "none" while it runs, then "returned",
\* "composite" (the RuntimeError after the last attempt) or "close_error"
\* (an exception of session.close() that left the except block).  A caller's
\* record holds the call in flight and the call that ended last.
NoApi == [name |-> "none", times |-> 0, cycle |-> FALSE, raised |-> FALSE]

NoExec == [server |-> << >>, result |-> "none", attempt |-> 0,
           invocations |-> 0, op_failures |-> 0, last_failure |-> "none",
           reconnects |-> 0, r_slept |-> << >>, slept |-> << >>,
           closed |-> FALSE, table |-> EmptyDict]

NoOp == [kind |-> "none", pc |-> "done", r_attempt |-> 0, session |-> 0,
         exec |-> NoExec, last_exec |-> NoExec, remaining |-> << >>,
         results |-> << >>, result |-> "none"]

\* the state after MCPServerManager(...): nothing connected, no exit stack,
\* an empty liveness registry
ManagerInit(c) ==
    /\ mcpServers = c.mcpServers
    /\ heartbeat_interval = c.heartbeat_interval
    /\ sessions = EmptyDict
    /\ server_states = EmptyDict
    /\ exit_stack = NoStack
    /\ heartbeat_tasks = EmptyDict
    /\ records = EmptyDict
    /\ now = 0
    /\ emitted = {}
    /\ leaked = {}
    /\ hb_started = {}
    /\ supPc = "idle"
    /\ connect_index = 0
    /\ ops = [c2 \in Callers |-> NoOp]
    /\ last_api = NoApi
    /\ connect_results = << >>
    /\ RegInit(TRUE)

\* self.config = None; the agent's config file has the mcpServers key
SupInit(c) ==
    /\ ManagerInit(c)
    /\ config = [loaded |-> FALSE, has_mcpServers |-> TRUE]

\* the variables of the pipeline
configVars == <<seeded, startup_sweep, startup_sweep_limit>>
sweepVars  == <<runPc, iteration, fetched>>
pollerVars == <<pollerPc, poll_backoff, poll_consecutive_errors, error_type,
                wait_seconds, streak>>
procHist   == <<response, sends>>
procVars   == <<procPc, backlog, processing_order, all_pending, handler_input,
                handler_calls, handled, redelivered, last_send, order_log,
                outcome, procHist>>
pipelineVars == <<store, configVars, sweepVars, pollerVars, procVars, last_check, hbPc>>
vars == <<pipelineVars, supVars, parseVars>>

NoCheck == [by |-> "none", kind |-> "none", id |-> 0]
NoInput == [id |-> 0, timestamp |-> 0, batch_mode |-> FALSE,
            queue_messages |-> << >>, backlog_count |-> 0]
NoSend == [parent_message_id |-> 0, content |-> ""]
NoResponse == [is_str |-> TRUE, text |-> "none yet"]

\* the state after QueueManager(...), but for the heartbeat setting
QueueInit ==
    /\ \E c \in InitConfigs :
          /\ seeded = c.seeded
          /\ startup_sweep = c.startup_sweep
          /\ startup_sweep_limit = c.startup_sweep_limit
    /\ store = SeededStore(seeded)
    /\ runPc = "sweep_top"
    /\ iteration = 0
    /\ fetched = 0
    /\ pollerPc = "idle"
    /\ poll_backoff = PollBackoffInitial
    /\ poll_consecutive_errors = 0
    /\ error_type = "none"
    /\ wait_seconds = 0
    /\ last_check = NoCheck
    /\ streak = [base |-> PollBackoffInitial, conn |-> 0, rate |-> 0]
    /\ procPc = "idle"
    /\ backlog = 0
    /\ processing_order = "desc"
    /\ all_pending = << >>
    /\ handler_input = NoInput
    /\ handler_calls = 0
    /\ handled = {}
    /\ redelivered = {}
    /\ last_send = NoSend
    /\ order_log = <<"none", "none">>
    /\ outcome = "none"
    /\ response = NoResponse
    /\ sends = 0

\* heartbeat_interval = 0: run() creates no heartbeat task
PipelineInit ==
    /\ QueueInit
    /\ hbPc = "disabled"

\* the pipeline's runs start with a supervisor that is not used
Init ==
    /\ PipelineInit
    /\ SupInit([mcpServers |-> <<Filesystem>>, heartbeat_interval |-> 0])
    /\ ParseInit

-----------------------------------------------------------------------------
(* The remote "messages" tool, action "check", as _parse_message reports   *)
(* it: 0 for "no relevant mention", else the id of the parsed mention.  A  *)
(* mention is either new to the store (the k-th new mention of the run is  *)
(* given the next free id) or a mention the service delivers again.        *)

NoMention == 0

\* the status a mention's id had in the store when the check delivered it
StatusBefore(s, id) == IF id \in StoredIds(s) THEN RowOf(s, id).status ELSE "absent"

FreshIds(s) == IF Len(s) < seeded + MaxNew THEN {Len(s) + 1} ELSE {}

RedeliveredIds(s) == {i \in StoredIds(s) : i = 1 \/ i > seeded}

CheckResults(s) == {NoMention} \cup FreshIds(s) \cup RedeliveredIds(s)

-----------------------------------------------------------------------------
(* run() and _startup_sweep() *)

\* asyncio.gather(poll_and_store(), process_queue(), ...)
StartTasks ==
    /\ runPc' = "tasks"
    /\ iteration' = 0
    /\ fetched' = 0
    /\ pollerPc' = "loop"
    /\ procPc' = "loop"
    /\ hbPc' = IF hbPc = "disabled" THEN "disabled" ELSE "sleep"

\* mutant: the sweep without its iteration cap
SweepEnds_noCap(enabled, iter, got, limit) ==
    \/ ~enabled
    \/ (limit > 0 /\ got >= limit)

\* the sweep is over: it is disabled, the while condition has turned false
\* at the iteration cap, or the limit (0 = none) is reached
SweepEnds(enabled, iter, got, limit) ==
    \/ ~enabled
    \/ iter >= max_iterations
    \/ (limit > 0 /\ got >= limit)

\* top of the sweep loop: the disabled flag, the iteration cap and the limit
SweepTop ==
    /\ runPc = "sweep_top"
    /\ IF SweepEnds(startup_sweep, iteration, fetched, startup_sweep_limit)
         THEN StartTasks
         ELSE /\ runPc' = "sweep_call"
              /\ UNCHANGED <<iteration, fetched, pollerPc, procPc, hbPc>>
    /\ UNCHANGED <<store, configVars, supVars, parseVars, poll_backoff,
                   poll_consecutive_errors, error_type, wait_seconds, streak,
                   backlog, processing_order, all_pending, handler_input,
                   handler_calls, handled, redelivered, last_send, order_log,
                   outcome, procHist, last_check>>

\* the remote check of the sweep returns: parse, store, count
SweepReturn(m) ==
    /\ runPc = "sweep_call"
    /\ m \in CheckResults(store)
    /\ IF m = NoMention
         THEN /\ StartTasks
              /\ last_check' = [by |-> "sweep", kind |-> "empty", id |-> NoMention]
              /\ UNCHANGED store
         ELSE /\ store' = StoreMessage(store, m)
              /\ fetched' = IF StoreSucceeds(store, m) THEN fetched + 1 ELSE fetched
              /\ iteration' = iteration + 1
              /\ runPc' = "sweep_top"
              /\ last_check' =
                    [by |-> "sweep",
                     kind |-> IF StoreSucceeds(store, m) THEN "stored" ELSE "duplicate",
                     id |-> m,
                     was |-> StatusBefore(store, m)]
              /\ UNCHANGED <<pollerPc, procPc, hbPc>>
    /\ UNCHANGED <<configVars, supVars, parseVars, poll_backoff,
                   poll_consecutive_errors, error_type, wait_seconds, streak,
                   backlog, processing_order, all_pending, handler_input,
                   handler_calls, handled, redelivered, last_send, order_log,
                   outcome, procHist>>

\* the remote check of the sweep raises: the sweep ends, polling starts
SweepRaise ==
    /\ runPc = "sweep_call"
    /\ StartTasks
    /\ last_check' = [by |-> "sweep", kind |-> "error", id |-> NoMention]
    /\ UNCHANGED <<store, configVars, supVars, parseVars, poll_backoff,
                   poll_consecutive_errors, error_type, wait_seconds, streak,
                   backlog, processing_order, all_pending, handler_input,
                   handler_calls, handled, redelivered, last_send, order_log,
                   outcome, procHist>>

\* run() is cancelled: every started task ends at its await
Cancel ==
    /\ runPc # "done"
    /\ runPc' = "done"
    /\ pollerPc' = IF pollerPc = "idle" THEN "idle" ELSE "stopped"
    /\ procPc' = IF procPc = "idle" THEN "idle" ELSE "stopped"
    /\ hbPc' = IF hbPc \in {"disabled", "idle"} THEN hbPc ELSE "stopped"
    /\ UNCHANGED <<store, configVars, supVars, parseVars, iteration, fetched,
                   poll_backoff, poll_consecutive_errors, error_type,
                   wait_seconds, streak, backlog, processing_order,
                   all_pending, handler_input, handler_calls, handled,
                   redelivered, last_send, order_log, outcome, procHist,
                   last_check>>

-----------------------------------------------------------------------------
(* poll_and_store() *)

\* the reset both successful branches share
ResetBackoff ==
    IF poll_consecutive_errors > 0
      THEN /\ poll_consecutive_errors' = 0
           /\ poll_backoff' = PollBackoffInitial
      ELSE UNCHANGED <<poll_consecutive_errors, poll_backoff>>

\* top of the poller loop: the pause gate (is_agent_paused is an input read
\* from the external store), then the remote check is issued
PollStart(paused) ==
    /\ runPc = "tasks"
    /\ pollerPc = "loop"
    /\ pollerPc' = IF paused THEN "loop" ELSE "call"
    /\ UNCHANGED <<store, configVars, supVars, parseVars, hbPc, sweepVars,
                   poll_backoff, poll_consecutive_errors, error_type,
                   wait_seconds, streak, procVars, last_check>>

\* mutant: a mention the store refuses is handled as a failed poll
StoreParsedMention_duplicateFails(m) ==
    /\ store' = StoreMessage(store, m)
    /\ IF StoreSucceeds(store, m)
         THEN /\ ResetBackoff
              /\ pollerPc' = "loop"
              /\ UNCHANGED <<error_type, wait_seconds>>
         ELSE /\ poll_consecutive_errors' = poll_consecutive_errors + 1
              /\ error_type' = "unknown"
              /\ wait_seconds' = Min(poll_backoff, poll_backoff_max)
              /\ pollerPc' = "wait"
              /\ UNCHANGED poll_backoff
    /\ last_check' =
          [by |-> "poller",
           kind |-> IF StoreSucceeds(store, m) THEN "stored" ELSE "duplicate",
           id |-> m,
           was |-> StatusBefore(store, m)]

\* what the poller does with a parsed mention
StoreParsedMention(m) ==
    /\ store' = StoreMessage(store, m)
    /\ IF StoreSucceeds(store, m)
         THEN ResetBackoff
         ELSE UNCHANGED <<poll_consecutive_errors, poll_backoff>>
    /\ last_check' =
          [by |-> "poller",
           kind |-> IF StoreSucceeds(store, m) THEN "stored" ELSE "duplicate",
           id |-> m,
           was |-> StatusBefore(store, m)]
    /\ pollerPc' = "loop"
    /\ UNCHANGED <<error_type, wait_seconds>>

\* the remote check returns: parse, store, reset the backoff
PollReturn(m) ==
    /\ pollerPc = "call"
    /\ m \in CheckResults(store)
    /\ IF m = NoMention
         THEN /\ ResetBackoff
              /\ last_check' = [by |-> "poller", kind |-> "empty", id |-> NoMention]
              /\ pollerPc' = "loop"
              /\ UNCHANGED <<store, error_type, wait_seconds>>
         ELSE StoreParsedMention(m)
    /\ streak' = [base |-> poll_backoff', conn |-> 0, rate |-> 0]
    /\ UNCHANGED <<configVars, supVars, parseVars, hbPc, sweepVars, procVars>>

\* the remote check raises: classify, count, start the sleep
PollFail(e) ==
    /\ pollerPc = "call"
    /\ poll_consecutive_errors < MaxPollErrors
    /\ LET parsed == ParseErrorAndGetWaitTime(e, poll_backoff)
       IN  /\ error_type' = parsed[1]
           /\ wait_seconds' = parsed[2]
           /\ streak' = IF parsed[1] = "rate_limit"
                          THEN [streak EXCEPT !.rate = @ + 1]
                          ELSE [streak EXCEPT !.conn = @ + 1]
    /\ poll_consecutive_errors' = poll_consecutive_errors + 1
    /\ pollerPc' = "wait"
    /\ last_check' = [by |-> "poller", kind |-> "error", id |-> NoMention,
                      retry_after |-> IF e.json = "retry_after" THEN e.retry_after ELSE 0]
    /\ UNCHANGED <<store, configVars, supVars, parseVars, hbPc, sweepVars,
                   poll_backoff, procVars>>

\* mutant: a rate-limit failure advances the backoff like any other
BackoffAfterSleep_always(type, backoff) == NextBackoff(backoff)

\* the backoff after the sleep of a failed poll
BackoffAfterSleep(type, backoff) ==
    IF type = "rate_limit" THEN backoff ELSE NextBackoff(backoff)

\* the sleep after a failed poll ends; error_type and wait_seconds are dead
\* from here to the next failure
PollWake ==
    /\ pollerPc = "wait"
    /\ poll_backoff' = BackoffAfterSleep(error_type, poll_backoff)
    /\ pollerPc' = "loop"
    /\ error_type' = "none"
    /\ wait_seconds' = 0
    /\ UNCHANGED <<store, configVars, supVars, parseVars, hbPc, sweepVars,
                   poll_consecutive_errors, streak, procVars, last_check>>

-----------------------------------------------------------------------------
(* process_queue() *)

\* what the handler returns: a str (a reply, the empty string, blanks), or
\* an object that is not a str, given by the text str() makes of it (None)
Responses ==
    { [is_str |-> TRUE, text |-> "hi"],
      [is_str |-> TRUE, text |-> ""],
      [is_str |-> TRUE, text |-> "  "],
      [is_str |-> FALSE, text |-> "None"] }

\* if not isinstance(response, str): response = str(response)
ToStr(r) == r.text

\* response.strip()
Strip(r) == IF r = "  " THEN "" ELSE r

\* mutant: blanks count as a reply
HasContent_noStrip(r) == r # ""

\* if response and response.strip()
HasContent(r) == r # "" /\ Strip(r) # ""

Ids(batch) == {batch[i].id : i \in 1..Len(batch)}

\* mutant: FIFO already at the threshold
ProcessingOrder_atThreshold(B) == IF B >= BacklogThreshold THEN "asc" ELSE "desc"

\* mutant: newest first whatever the backlog
ProcessingOrder_alwaysFilo(B) == "desc"

\* if backlog > 100: processing_order = "asc" else "desc"
ProcessingOrder(B) == IF B > BacklogThreshold THEN "asc" ELSE "desc"

\* queue_snapshot: one dict per fetched message, in fetch order
QueueSnapshot(batch) ==
    [i \in 1..Len(batch) |-> [id |-> batch[i].id, timestamp |-> batch[i].timestamp]]

\* mutant: the history also carries the mention the service delivers next,
\* which no one has stored
HistoryMsgs_unpersisted(batch, order) ==
    Append(Tail(batch), [id |-> Len(store) + 1, timestamp |-> NextTimestamp(store)])

\* mutant: the history is never reversed
HistoryMsgs_fetchOrder(batch, order) == Tail(batch)

\* history_msgs: all_pending[1:], reversed when the order is "desc"
HistoryMsgs(batch, order) ==
    IF order = "desc" THEN Reverse(Tail(batch)) ELSE Tail(batch)

\* the dict passed to self.handler
HandlerInput(batch, order, B) ==
    IF Len(batch) > 1
      THEN [id |-> batch[1].id,
            timestamp |-> batch[1].timestamp,
            batch_mode |-> TRUE,
            batch_size |-> Len(batch),
            history_messages |-> QueueSnapshot(HistoryMsgs(batch, order)),
            backlog_count |-> B,
            queue_messages |-> QueueSnapshot(batch)]
      ELSE [id |-> batch[1].id,
            timestamp |-> batch[1].timestamp,
            batch_mode |-> FALSE,
            backlog_count |-> B,
            queue_messages |-> QueueSnapshot(batch)]

\* reply_to_msg = all_pending[0]
ReplyTo(batch) == batch[1]

\* mutant: the claim marks every row of the table
ClaimBatch_everyRow(s, batch) == MarkProcessingStarted(s, StoredIds(s))

\* for msg in all_pending: self.store.mark_processing_started(msg.id, ...)
ClaimBatch(s, batch) == MarkProcessingStarted(s, Ids(batch))

\* for msg in all_pending: self.store.mark_processed(msg.id, ...)
CompleteBatch(s, batch) == MarkProcessed(s, Ids(batch))

\* mutant: a failed batch is left as claimed
DeadLetterBatch_skip(s, batch) == s

\* mutant: a failed batch is put back in the queue for a retry
DeadLetterBatch_requeue(s, batch) ==
    [k \in 1..Len(s) |->
        IF s[k].id \in Ids(batch) THEN [s[k] EXCEPT !.status = "pending"] ELSE s[k]]

\* the same loop in the handler-error branch
DeadLetterBatch(s, batch) == MarkProcessed(s, Ids(batch))

\* backlog count, ordering, fetch, claim, handler call
FetchAndDispatch ==
    LET B     == GetBacklogCount(store)
        order == ProcessingOrder(B)
        batch == GetPendingMessages(store, BatchLimit, order)
    IN  /\ backlog' = B
        /\ processing_order' = order
        /\ all_pending' = batch
        /\ IF batch = << >>
             THEN /\ UNCHANGED <<store, procPc, handler_input, handler_calls,
                                 handled, redelivered, order_log>>
             ELSE /\ store' = ClaimBatch(store, batch)
                  /\ handler_input' = HandlerInput(batch, order, B)
                  /\ handler_calls' = handler_calls + 1
                  /\ redelivered' = redelivered \cup (handled \cap Ids(batch))
                  /\ handled' = handled \cup Ids(batch)
                  /\ order_log' = <<order_log[2], order>>
                  /\ procPc' = "handler"

\* what the processor finds at its gates: the kill-switch file exists; the
\* agent is paused and stays so; it is paused and check_auto_resume releases
\* it; neither.  Both are read from outside the pipeline.
ProcGates == {"kill_switch", "paused", "auto_resumed", "open"}

\* mutant: only the kill switch holds the processor
GateHolds_killSwitchOnly(found) == found = "kill_switch"

\* the two gates at the top of the loop: sleep 5 s and continue
GateHolds(found) == found \in {"kill_switch", "paused"}

\* one pass of the processor loop up to its first await
ProcIterate(found) ==
    /\ runPc = "tasks"
    /\ procPc = "loop"
    /\ outcome' = IF found \in {"kill_switch", "paused"} THEN found ELSE outcome
    /\ response' = NoResponse
    /\ sends' = 0
    /\ IF GateHolds(found)
         THEN UNCHANGED <<store, procPc, backlog, processing_order, all_pending,
                          handler_input, handler_calls, handled, redelivered,
                          order_log>>
         ELSE FetchAndDispatch
    /\ UNCHANGED <<configVars, supVars, parseVars, hbPc, sweepVars,
                   pollerVars, last_send, last_check>>

\* the handler returns
HandlerReturn(r) ==
    /\ procPc = "handler"
    /\ r \in Responses
    /\ response' = r
    /\ IF HasContent(ToStr(r))
         THEN /\ last_send' = [parent_message_id |-> ReplyTo(all_pending).id,
                               content |-> ToStr(r)]
              /\ sends' = sends + 1
              /\ procPc' = "send"
              /\ handler_input' = NoInput
              /\ UNCHANGED <<store, outcome>>
         ELSE /\ store' = CompleteBatch(store, all_pending)
              /\ outcome' = "no_response"
              /\ procPc' = "loop"
              /\ handler_input' = NoInput
              /\ UNCHANGED <<last_send, sends>>
    /\ UNCHANGED <<configVars, supVars, parseVars, hbPc, sweepVars,
                   pollerVars, backlog, processing_order, all_pending,
                   handler_calls, handled, redelivered, order_log,
                   last_check>>

\* the handler raises
HandlerRaise ==
    /\ procPc = "handler"
    /\ store' = DeadLetterBatch(store, all_pending)
    /\ outcome' = "handler_error"
    /\ procPc' = "loop"
    /\ handler_input' = NoInput
    /\ UNCHANGED <<configVars, supVars, parseVars, hbPc, sweepVars,
                   pollerVars, backlog, processing_order, all_pending,
                   handler_calls, handled, redelivered, last_send, order_log,
                   procHist, last_check>>

\* the reply send returns
SendReturn ==
    /\ procPc = "send"
    /\ store' = CompleteBatch(store, all_pending)
    /\ outcome' = "replied"
    /\ procPc' = "loop"
    /\ UNCHANGED <<configVars, supVars, parseVars, hbPc, sweepVars,
                   pollerVars, backlog, processing_order, all_pending,
                   handler_input, handler_calls, handled, redelivered,
                   last_send, order_log, procHist, last_check>>

\* the reply send raises
SendRaise ==
    /\ procPc = "send"
    /\ store' = DeadLetterBatch(store, all_pending)
    /\ outcome' = "send_error"
    /\ procPc' = "loop"
    /\ UNCHANGED <<configVars, supVars, parseVars, hbPc, sweepVars,
                   pollerVars, backlog, processing_order, all_pending,
                   handler_input, handler_calls, handled, redelivered,
                   last_send, order_log, procHist, last_check>>

-----------------------------------------------------------------------------
Next ==
    \/ SweepTop
    \/ \E m \in CheckResults(store) : SweepReturn(m)
    \/ SweepRaise
    \/ Cancel
    \/ \E paused \in BOOLEAN : PollStart(paused)
    \/ \E m \in CheckResults(store) : PollReturn(m)
    \/ \E found \in ProcGates : ProcIterate(found)
    \/ \E r \in Responses : HandlerReturn(r)
    \/ HandlerRaise
    \/ SendReturn
    \/ SendRaise

Spec == Init /\ [][Next]_vars

(* The poller alone, with a longer run of failures: the processor does not *)
(* read or write the poller's backoff state.                               *)
InitPoller ==
    /\ Init
    /\ seeded = 0
    /\ ~startup_sweep

NextPoller ==
    \/ SweepTop
    \/ \E paused \in BOOLEAN : PollStart(paused)
    \/ \E m \in CheckResults(store) : PollReturn(m)
    \/ \E e \in ErrorInputs : PollFail(e)
    \/ PollWake

SpecPoller == InitPoller /\ [][NextPoller]_vars

(* The startup sweep alone: run() awaits _startup_sweep() before it creates *)
(* the tasks, so nothing else of the pipeline runs during the sweep.  The   *)
(* event loop resumes the sweep after its sleep, and every remote check is  *)
(* taken to end, by returning or by raising.                                *)
NextSweep ==
    \/ SweepTop
    \/ \E m \in CheckResults(store) : SweepReturn(m)
    \/ SweepRaise

SweepFairness ==
    /\ WF_vars(SweepTop)
    /\ WF_vars(SweepRaise \/ \E m \in CheckResults(store) : SweepReturn(m))

SpecSweep == Init /\ [][NextSweep]_vars /\ SweepFairness

(* The pipeline while the processor keeps running: run() is not cancelled, *)
(* the kill switch is absent and a pause is released at once.  The event   *)
(* loop resumes every task that is ready, and every handler call and every *)
(* send is taken to end, by returning or by raising.                       *)
OpenGates == {"auto_resumed", "open"}

NextDrain ==
    \/ SweepTop
    \/ \E m \in CheckResults(store) : SweepReturn(m)
    \/ SweepRaise
    \/ \E paused \in BOOLEAN : PollStart(paused)
    \/ \E m \in CheckResults(store) : PollReturn(m)
    \/ \E found \in OpenGates : ProcIterate(found)
    \/ \E r \in Responses : HandlerReturn(r)
    \/ HandlerRaise
    \/ SendReturn
    \/ SendRaise

\* the processor's steps by what they do to its position: a fetch that
\* finds pending messages, the end of the handler call, the end of the send
ProcTakes ==
    /\ runPc = "tasks"
    /\ procPc = "loop"
    /\ GetBacklogCount(store) > 0
    /\ procPc' = "handler"

HandlerEnds == procPc = "handler" /\ procPc' \in {"loop", "send"}

SendEnds == procPc = "send" /\ procPc' = "loop"

DrainFairness ==
    /\ SweepFairness
    /\ WF_procPc(ProcTakes)
    /\ WF_procPc(HandlerEnds)
    /\ WF_procPc(SendEnds)

SpecDrain == Init /\ [][NextDrain]_vars /\ DrainFairness

(* run() with its three tasks, one of which may end with an exception.     *)

\* the remote check raises a rate-limit error whose retry_after is not a
\* number: _parse_error_and_get_wait_time returns it as wait_seconds and
\* asyncio.sleep(wait_seconds) raises TypeError inside the except block,
\* which ends poll_and_store with that exception
PollFatal ==
    /\ pollerPc = "call"
    /\ poll_consecutive_errors < MaxPollErrors
    /\ poll_consecutive_errors' = poll_consecutive_errors + 1
    /\ error_type' = "rate_limit"
    /\ pollerPc' = "failed"
    /\ last_check' = [by |-> "poller", kind |-> "error", id |-> NoMention,
                      retry_after |-> 0]
    /\ UNCHANGED <<store, configVars, supVars, parseVars, hbPc, sweepVars,
                   poll_backoff, wait_seconds, streak, procVars>>

\* await asyncio.gather(*tasks) raises the exception of the task that
\* failed; gather leaves the other tasks as they are.  except Exception
\* logs it, finally sets _running = False, and run() returns.
RunFails ==
    /\ runPc = "tasks"
    /\ pollerPc = "failed"
    /\ runPc' = "done"
    /\ UNCHANGED <<store, configVars, supVars, parseVars, hbPc, iteration,
                   fetched, pollerVars, procVars, last_check>>

\* while self._running of process_queue turns false
ProcExit ==
    /\ runPc = "done"
    /\ procPc = "loop"
    /\ procPc' = "stopped"
    /\ UNCHANGED <<store, configVars, supVars, parseVars, hbPc, sweepVars,
                   pollerVars, backlog, processing_order, all_pending,
                   handler_input, handler_calls, handled, redelivered,
                   last_send, order_log, outcome, procHist, last_check>>

\* keep_alive: the interval has passed, a ping is sent
HbPing ==
    /\ hbPc = "sleep"
    /\ hbPc' = "ping"
    /\ UNCHANGED <<store, configVars, supVars, parseVars, sweepVars,
                   pollerVars, procVars, last_check>>

\* keep_alive: the ping ends; a failure is logged and the loop goes on
HbPingEnds ==
    /\ hbPc = "ping"
    /\ hbPc' = "sleep"
    /\ UNCHANGED <<store, configVars, supVars, parseVars, sweepVars,
                   pollerVars, procVars, last_check>>

\* heartbeat_interval of the QueueManager: 0 or positive
InitRun ==
    /\ QueueInit
    /\ seeded = 0
    /\ ~startup_sweep
    /\ hbPc \in {"disabled", "idle"}
    /\ SupInit([mcpServers |-> <<Filesystem>>, heartbeat_interval |-> 0])
    /\ ParseInit

NextRun ==
    \/ SweepTop
    \/ Cancel
    \/ \E paused \in BOOLEAN : PollStart(paused)
    \/ \E m \in CheckResults(store) : PollReturn(m)
    \/ PollFatal
    \/ RunFails
    \/ \E found \in ProcGates : ProcIterate(found)
    \/ \E r \in Responses : HandlerReturn(r)
    \/ HandlerRaise
    \/ SendReturn
    \/ SendRaise
    \/ ProcExit
    \/ HbPing
    \/ HbPingEnds

SpecRun == InitRun /\ [][NextRun]_vars

-----------------------------------------------------------------------------
(* LivenessRegistry *)

Put(d, k, v) == [x \in DOMAIN d \cup {k} |-> IF x = k THEN v ELSE d[x]]

Pop(d, k) == [x \in DOMAIN d \ {k} |-> d[x]]

\* LivenessRecord(name, timeout): no heartbeat yet (-1), no misses
NewRecord(timeout) ==
    [timeout |-> timeout, last_heartbeat |-> -1, consecutive_misses |-> 0]

\* register(name, timeout)
Register(recs, name, timeout) == Put(recs, name, NewRecord(timeout))

\* _emit_state: nothing without a callback; else the callback is called
\* with one (name, state)
EmitState(em, name, state) ==
    IF state_callback THEN em \cup {<<name, state>>} ELSE em

\* mutant: a beat stamps the time and keeps the misses
Beat_keepsMisses(recs, name, t) ==
    IF name \in DOMAIN recs
      THEN [recs EXCEPT ![name].last_heartbeat = t]
      ELSE recs

\* beat(name): an unregistered name is left alone
Beat(recs, name, t) ==
    IF name \in DOMAIN recs
      THEN [recs EXCEPT ![name].last_heartbeat = t,
                        ![name].consecutive_misses = 0]
      ELSE recs

\* miss(name): an unregistered name is left alone
Miss(recs, name) ==
    IF name \in DOMAIN recs
      THEN [recs EXCEPT ![name].consecutive_misses = @ + 1]
      ELSE recs

\* what beat, miss and mark_dead emit: nothing for an unregistered name
Emitted(em, recs, name, state) ==
    IF name \in DOMAIN recs THEN EmitState(em, name, state) ELSE em

-----------------------------------------------------------------------------
(* MCPServerManager *)

StartsWith(s, prefix) ==
    /\ Len(s) >= Len(prefix)
    /\ SubSeq(s, 1, Len(prefix)) = prefix

\* pattern in s, for texts
IsInfix(pattern, s) ==
    \E i \in 1..(Len(s) - Len(pattern) + 1) :
        SubSeq(s, i, i + Len(pattern) - 1) = pattern

\* str(args) of a list of texts: ['a', 'b']
RECURSIVE ReprItems(_)
ReprItems(args) ==
    IF args = << >> THEN << >>
    ELSE <<"'">> \o Head(args) \o <<"'">> \o
         (IF Len(args) > 1 THEN <<",", " ">> ELSE << >>) \o ReprItems(Tail(args))

Repr(args) == <<"[">> \o ReprItems(args) \o <<"]">>

\* mutant: only the name decides
RequiresHeartbeat_nameOnly(name, args) == StartsWith(name, AxPrefix)

\* requires_heartbeat of _maybe_start_heartbeat
RequiresHeartbeat(name, args) ==
    StartsWith(name, AxPrefix) \/ IsInfix(McpRemote, Repr(args))

\* the part of the state a connect or a failed attempt may change
World ==
    [sessions |-> sessions, exit_stack |-> exit_stack,
     heartbeat_tasks |-> heartbeat_tasks, hb_started |-> hb_started,
     leaked |-> leaked, records |-> records,
     emitted |-> emitted]

SetWorld(w) ==
    /\ sessions' = w.sessions
    /\ exit_stack' = w.exit_stack
    /\ heartbeat_tasks' = w.heartbeat_tasks
    /\ hb_started' = {sid \in w.hb_started : \E n \in DOMAIN w.sessions : w.sessions[n] = sid}
    /\ leaked' = w.leaked
    /\ records' = w.records
    /\ emitted' = w.emitted

\* HeartbeatManager.start(session, name): a task per name, none when the
\* interval is 0
HeartbeatStart(w, name, sid) ==
    [w EXCEPT !.hb_started = @ \cup {sid},
              !.heartbeat_tasks = IF heartbeat_interval > 0
                                    THEN Put(@, name, sid)
                                    ELSE @]

\* HeartbeatManager.stop_all()
HeartbeatStopAll == EmptyDict

\* _maybe_start_heartbeat(server_name, session, server_config)
MaybeStartHeartbeat(w, name, args, sid) ==
    IF RequiresHeartbeat(name, args) THEN HeartbeatStart(w, name, sid) ELSE w

\* ServerConnectionState(name=server_name, config=server_config), without
\* the fields the supervisor writes and never reads (reconnect_attempts,
\* metadata) or never writes (heartbeat_task)
NewState(srv) ==
    [name |-> srv.name, args |-> srv.args, session |-> 0, last_error |-> "none"]

\* the session objects of an exit stack
Contexts(stack) == {stack.contexts[i] : i \in 1..Len(stack.contexts)}

\* a new session object is named by the first number no open or lost object has
FreeSessions(w) == (1..MaxSessions) \ (Contexts(w.exit_stack) \cup w.leaked)

NewSession(w) == CHOOSE sid \in FreeSessions(w) : \A other \in FreeSessions(w) : sid <= other

\* how a connect ends: the transport cannot be opened; initialize fails or
\* times out; the list_tools probe fails or times out; everything succeeds.
\* Every how but the first creates a session object.
ConnectOutcomes(w) ==
    {"spawn_fails"} \cup
    (IF FreeSessions(w) # {}
       THEN {"initialize_fails", "probe_fails", "ok"}
       ELSE {})

\* _connect_single_server(state): the new world, the state object as the
\* call leaves it, and the value returned
ConnectSingleServer(w, st, how) ==
    IF ~w.exit_stack.created \/ how = "spawn_fails"
      THEN [w |-> w, state |-> [st EXCEPT !.last_error = "error"], ok |-> FALSE]
      ELSE
        LET sid == NewSession(w)
            w1  == [w EXCEPT !.exit_stack.contexts = Append(@, sid)]
        IN  IF how = "initialize_fails"
              THEN [w |-> w1, state |-> [st EXCEPT !.last_error = "error"],
                    ok |-> FALSE]
              ELSE
                LET w2  == [w1 EXCEPT !.sessions = Put(@, st.name, sid)]
                    st2 == [st EXCEPT !.session = sid, !.last_error = "none"]
                    w3  == MaybeStartHeartbeat(w2, st.name, st.args, sid)
                    w4  == [w3 EXCEPT
                              !.records = Beat(@, st.name, now),
                              !.emitted = Emitted(@, w3.records, st.name, "alive")]
                IN  IF how = "probe_fails"
                      THEN [w |-> w4,
                            state |-> [st2 EXCEPT !.last_error = "error"],
                            ok |-> FALSE]
                      ELSE [w |-> w4, state |-> st2, ok |-> TRUE]

AllIdle == supPc = "idle" /\ \A c \in Callers : ops[c].pc = "done"

ConfiguredNames == {mcpServers[i].name : i \in 1..Len(mcpServers)}

\* a call returns: twice in a row for a disconnect_all() right after another,
\* a cycle for a connect_all() that began right after a disconnect_all()
Returned(api) ==
    [name |-> api,
     times |-> IF api = "disconnect_all" /\ last_api.name = api THEN 2 ELSE 1,
     cycle |-> api = "connect_all" /\ last_api.cycle,
     raised |-> FALSE]

\* a call raises
Raised(api) == [NoApi EXCEPT !.name = api, !.raised = TRUE]

\* json.load(f) of load_config(): self.config is assigned whatever the file holds
LoadedConfig == [config EXCEPT !.loaded = TRUE]

\* load_config(): the parsed file is kept, then checked for its mcpServers key
LoadConfig ==
    /\ AllIdle
    /\ config' = LoadedConfig
    /\ last_api' = IF config.has_mcpServers THEN Returned("load_config")
                                            ELSE Raised("load_config")
    /\ UNCHANGED <<pipelineVars, parseVars, regVars, mcpServers,
                   heartbeat_interval, sessions, server_states, exit_stack,
                   heartbeat_tasks, records, now, emitted, leaked, hb_started,
                   supPc, connect_index, ops, connect_results>>

\* self.config.get("mcpServers", {}) of connect_all()
McpServers(cfg) == IF cfg.has_mcpServers THEN mcpServers ELSE << >>

\* connect_all() up to its loop: the config is loaded if none is held, a new
\* exit stack replaces the old one, whose contexts stay open
ConnectAllStart ==
    /\ AllIdle
    /\ Cardinality(leaked \cup Contexts(exit_stack)) <= MaxLeaked
    /\ config' = IF config.loaded THEN config ELSE LoadedConfig
    /\ IF ~config.loaded /\ ~config.has_mcpServers
         THEN /\ last_api' = Raised("connect_all")
              /\ UNCHANGED <<exit_stack, leaked, supPc, connect_index,
                             connect_results, ops>>
         ELSE /\ exit_stack' = EmptyStack
              /\ leaked' = leaked \cup Contexts(exit_stack)
              /\ connect_results' = << >>
              /\ ops' = [c \in Callers |-> NoOp]
              /\ IF McpServers(config') = << >>
                   THEN /\ last_api' = Returned("connect_all")
                        /\ UNCHANGED <<supPc, connect_index>>
                   ELSE /\ supPc' = "connecting"
                        /\ connect_index' = 1
                        /\ last_api' = [NoApi EXCEPT
                                          !.cycle = last_api.name = "disconnect_all"]
    /\ UNCHANGED <<pipelineVars, parseVars, regVars, mcpServers,
                   heartbeat_interval, sessions, server_states,
                   heartbeat_tasks, records, now, emitted, hb_started>>

\* one pass of the loop of connect_all()
ConnectNext(how) ==
    /\ supPc = "connecting"
    /\ how \in ConnectOutcomes(World)
    /\ LET srv == McpServers(config)[connect_index]
           r   == ConnectSingleServer(World, NewState(srv), how)
       IN  /\ SetWorld(r.w)
           /\ server_states' = Put(server_states, srv.name, r.state)
           /\ connect_results' = Append(connect_results, r.ok)
    /\ IF connect_index = Len(McpServers(config))
         THEN /\ supPc' = "idle"
              /\ connect_index' = 0
              /\ last_api' = Returned("connect_all")
         ELSE /\ connect_index' = connect_index + 1
              /\ UNCHANGED <<supPc, last_api>>
    /\ UNCHANGED <<pipelineVars, parseVars, regVars, config, mcpServers,
                   heartbeat_interval, now, ops>>

\* mutant: only the context entered last is torn down by a call
DisconnectAll_lastOnly ==
    /\ AllIdle
    /\ heartbeat_tasks' = HeartbeatStopAll
    /\ IF exit_stack.created /\ exit_stack.contexts # << >>
         THEN /\ exit_stack' = [exit_stack EXCEPT
                                  !.contexts = SubSeq(@, 1, Len(@) - 1)]
              /\ sessions' = [n \in {m \in DOMAIN sessions :
                                 sessions[m] # exit_stack.contexts[Len(exit_stack.contexts)]}
                                |-> sessions[n]]
              /\ server_states' = EmptyDict
         ELSE UNCHANGED <<exit_stack, sessions, server_states>>
    /\ hb_started' = {}
    /\ connect_results' = << >>
    /\ ops' = [c \in Callers |-> NoOp]
    /\ last_api' = Returned("disconnect_all")
    /\ UNCHANGED <<pipelineVars, parseVars, regVars, config, mcpServers,
                   heartbeat_interval, records, now, emitted, leaked, supPc,
                   connect_index>>

\* mutant: the tables are cleared, the heartbeats keep running
DisconnectAll_keepHeartbeats ==
    /\ AllIdle
    /\ IF exit_stack.created
         THEN /\ exit_stack' = EmptyStack
              /\ sessions' = EmptyDict
              /\ server_states' = EmptyDict
         ELSE UNCHANGED <<exit_stack, sessions, server_states>>
    /\ hb_started' = {}
    /\ connect_results' = << >>
    /\ ops' = [c \in Callers |-> NoOp]
    /\ last_api' = Returned("disconnect_all")
    /\ UNCHANGED <<pipelineVars, parseVars, regVars, config, mcpServers,
                   heartbeat_interval, heartbeat_tasks, records, now, emitted,
                   leaked, supPc, connect_index>>

\* disconnect_all(): the exit stack closes every context it holds and is
\* empty afterwards.  The histories of what is closed now start afresh.
DisconnectAll ==
    /\ AllIdle
    /\ heartbeat_tasks' = HeartbeatStopAll
    /\ IF exit_stack.created
         THEN /\ exit_stack' = EmptyStack
              /\ sessions' = EmptyDict
              /\ server_states' = EmptyDict
         ELSE UNCHANGED <<exit_stack, sessions, server_states>>
    /\ hb_started' = {}
    /\ connect_results' = << >>
    /\ ops' = [c \in Callers |-> NoOp]
    /\ last_api' = Returned("disconnect_all")
    /\ UNCHANGED <<pipelineVars, parseVars, regVars, config, mcpServers,
                   heartbeat_interval, records, now, emitted, leaked, supPc,
                   connect_index>>

\* the first attempt of _execute_with_retry(server_name, ...)
StartExec(name, table) ==
    [NoExec EXCEPT !.server = name, !.attempt = 1, !.table = table]

\* _execute_with_retry ends: call_tool passes the result or the exception
\* on; list_all_tools records the tools, or [] for an exception, and goes
\* on with the next server
FinishExec(op, result, table) ==
    LET ended == [op.exec EXCEPT !.result = result]
        idle  == [op EXCEPT !.exec = NoExec, !.last_exec = ended,
                            !.session = 0, !.r_attempt = 0]
    IN  IF op.kind = "call_tool"
          THEN [idle EXCEPT !.pc = "done", !.result = result]
          ELSE
            LET res == Append(op.results,
                         <<ended.server,
                           IF result = "returned" THEN "tools" ELSE "empty">>)
                rem == Tail(op.remaining)
            IN  IF rem = << >>
                  THEN [idle EXCEPT !.pc = "done", !.result = "returned",
                                    !.results = res, !.remaining = rem]
                  ELSE [idle EXCEPT !.pc = "ensure",
                                    !.exec = StartExec(Head(rem), table),
                                    !.last_exec = NoExec,
                                    !.results = res, !.remaining = rem]

\* what session.close() does on an evicted session
CloseOutcomes == {"closed", "raises"}

\* mutant: a timeout evicts the session like any other failure
Evicts_always(kind) == TRUE

\* the failures after which the session is popped and closed
Evicts(kind) == kind # "timeout"

\* the except blocks of _execute_with_retry: the miss, for a failure other
\* than a timeout the eviction (a KeyError of pop is suppressed, any
\* exception of close() leaves the function), then the start of the sleep
FailAttempt(w, op, kind, closeOutcome) ==
    LET name     == op.exec.server
        w1       == [w EXCEPT !.records = Miss(@, name),
                              !.emitted = Emitted(@, w.records, name, "miss")]
        failed   == [op EXCEPT !.exec.last_failure = kind,
                               !.exec.op_failures =
                                   IF kind = "no_session" THEN @ ELSE @ + 1,
                               !.exec.closed = FALSE]
        sleeping == [failed EXCEPT !.pc = "sleep", !.r_attempt = 0,
                                   !.exec.slept = Append(@, op.exec.attempt)]
    IN  IF Evicts(kind) /\ name \in DOMAIN w1.sessions
          THEN LET sid == w1.sessions[name]
                   w2  == [w1 EXCEPT !.sessions = Pop(@, name)]
               IN  IF closeOutcome = "closed"
                     THEN [w |-> w2,
                           op |-> [sleeping EXCEPT !.session = sid,
                                                   !.exec.closed = TRUE]]
                     ELSE [w |-> w2,
                           op |-> FinishExec([failed EXCEPT !.session = sid],
                                             "close_error", w2.sessions)]
          ELSE [w |-> w1, op |-> sleeping]

\* a caller's record changes; a call that returns or raises is the latest
SetOp(c, op) ==
    /\ ops' = [ops EXCEPT ![c] = op]
    /\ last_api' = IF op.pc = "done" THEN Returned(op.kind) ELSE NoApi

OpNames == ConfiguredNames \cup {Ghost}

\* call_tool(server_name, tool_name, arguments)
CallTool(c, name) ==
    /\ supPc = "idle"
    /\ ops[c].pc = "done"
    /\ name \in OpNames
    /\ ops' = [ops EXCEPT ![c] = [NoOp EXCEPT !.kind = "call_tool",
                                             !.pc = "ensure",
                                             !.exec = StartExec(name, sessions)]]
    /\ last_api' = NoApi
    /\ UNCHANGED <<pipelineVars, parseVars, regVars, config, mcpServers,
                   heartbeat_interval, sessions, server_states, exit_stack,
                   heartbeat_tasks, records, now, emitted, leaked, hb_started,
                   supPc, connect_index, connect_results>>

\* the keys of self.server_states in insertion order
StateNames ==
    SelectSeq([i \in 1..Len(mcpServers) |-> mcpServers[i].name],
              LAMBDA n : n \in DOMAIN server_states)

\* list_all_tools()
ListAllTools(c) ==
    /\ supPc = "idle"
    /\ ops[c].pc = "done"
    /\ IF StateNames = << >>
         THEN SetOp(c, [NoOp EXCEPT !.kind = "list_all_tools",
                                   !.result = "returned"])
         ELSE /\ ops' = [ops EXCEPT ![c] =
                           [NoOp EXCEPT !.kind = "list_all_tools",
                                        !.pc = "ensure",
                                        !.remaining = StateNames,
                                        !.exec = StartExec(Head(StateNames), sessions)]]
              /\ last_api' = NoApi
    /\ UNCHANGED <<pipelineVars, parseVars, regVars, config, mcpServers,
                   heartbeat_interval, sessions, server_states, exit_stack,
                   heartbeat_tasks, records, now, emitted, leaked, hb_started,
                   supPc, connect_index, connect_results>>

\* the operation is started on a session
Invoke(op, sid) ==
    [op EXCEPT !.pc = "invoke", !.session = sid, !.r_attempt = 0,
               !.exec.invocations = @ + 1]

\* mutant: a server without a session is an unknown server
EnsureSession_noReconnect(c) ==
    /\ ops[c].pc = "ensure"
    /\ LET op   == ops[c]
           name == op.exec.server
       IN  IF name \in DOMAIN sessions
             THEN /\ SetOp(c, Invoke(op, sessions[name]))
                  /\ UNCHANGED <<sessions, exit_stack, heartbeat_tasks,
                                 hb_started, leaked, records, emitted>>
             ELSE LET f == FailAttempt(World, op, "no_session", "closed")
                  IN  SetWorld(f.w) /\ SetOp(c, f.op)
    /\ UNCHANGED <<pipelineVars, parseVars, regVars, config, mcpServers,
                   heartbeat_interval, server_states, now, supPc,
                   connect_index, connect_results>>

\* mutant: every attempt connects anew, whether or not the table has a
\* session
EnsureSession_alwaysReconnect(c) ==
    /\ ops[c].pc = "ensure"
    /\ LET op   == ops[c]
           name == op.exec.server
       IN  IF name \notin DOMAIN server_states
             THEN LET f == FailAttempt(World, op, "no_session", "closed")
                  IN  SetWorld(f.w) /\ SetOp(c, f.op)
             ELSE /\ SetOp(c, [op EXCEPT !.pc = "reconnect", !.r_attempt = 1])
                  /\ UNCHANGED <<sessions, exit_stack, heartbeat_tasks,
                                 hb_started, leaked, records, emitted>>
    /\ UNCHANGED <<pipelineVars, parseVars, regVars, config, mcpServers,
                   heartbeat_interval, server_states, now, supPc,
                   connect_index, connect_results>>

\* the start of an attempt: _ensure_session up to its first await
EnsureSession(c) ==
    /\ ops[c].pc = "ensure"
    /\ LET op   == ops[c]
           name == op.exec.server
       IN  IF name \in DOMAIN sessions
             THEN /\ SetOp(c, Invoke(op, sessions[name]))
                  /\ UNCHANGED <<sessions, exit_stack, heartbeat_tasks,
                                 hb_started, leaked, records, emitted>>
             ELSE IF name \notin DOMAIN server_states
               THEN LET f == FailAttempt(World, op, "no_session", "closed")
                    IN  SetWorld(f.w) /\ SetOp(c, f.op)
               ELSE /\ SetOp(c, [op EXCEPT !.pc = "reconnect", !.r_attempt = 1])
                    /\ UNCHANGED <<sessions, exit_stack, heartbeat_tasks,
                                   hb_started, leaked, records, emitted>>
    /\ UNCHANGED <<pipelineVars, parseVars, regVars, config, mcpServers,
                   heartbeat_interval, server_states, now, supPc,
                   connect_index, connect_results>>

\* mutant: the wait before a reconnect grows linearly with the attempt
ReconnectBackoff_linear(attempt) == reconnect_backoff * attempt

\* backoff = self.reconnect_backoff * (2 ** (attempt - 1)), in seconds
ReconnectBackoff(attempt) == reconnect_backoff * 2^(attempt - 1)

\* one pass of the loop of _attempt_reconnect, and after the last failed
\* pass the RuntimeError of _ensure_session
ReconnectAttempt(c, how, closeOutcome) ==
    /\ ops[c].pc = "reconnect"
    /\ how \in ConnectOutcomes(World)
    /\ LET op   == ops[c]
           name == op.exec.server
           st   == server_states[name]
           r    == ConnectSingleServer(World, st, how)
           op1  == [op EXCEPT !.exec.reconnects = @ + 1,
                              !.exec.r_slept =
                                  Append(@, ReconnectBackoff(op.r_attempt))]
       IN  /\ server_states' = Put(server_states, name, r.state)
           /\ IF r.ok /\ r.state.session # 0
                THEN SetWorld(r.w) /\ SetOp(c, Invoke(op1, r.state.session))
                ELSE IF op.r_attempt < max_operation_retries
                  THEN /\ SetWorld(r.w)
                       /\ SetOp(c, [op1 EXCEPT !.r_attempt = @ + 1])
                  ELSE LET f == FailAttempt(r.w, op1, "no_session",
                                            closeOutcome)
                       IN  SetWorld(f.w) /\ SetOp(c, f.op)
    /\ UNCHANGED <<pipelineVars, parseVars, regVars, config, mcpServers,
                   heartbeat_interval, now, supPc, connect_index,
                   connect_results>>

\* the operation returns within operation_timeout
OpReturn(c) ==
    /\ ops[c].pc = "invoke"
    /\ records' = Beat(records, ops[c].exec.server, now)
    /\ emitted' = Emitted(emitted, records, ops[c].exec.server, "alive")
    /\ SetOp(c, FinishExec(ops[c], "returned", sessions))
    /\ UNCHANGED <<pipelineVars, parseVars, regVars, config, mcpServers,
                   heartbeat_interval, sessions, server_states, exit_stack,
                   heartbeat_tasks, now, leaked, hb_started, supPc,
                   connect_index, connect_results>>

\* the operation exceeds operation_timeout
OpTimeout(c) ==
    /\ ops[c].pc = "invoke"
    /\ LET f == FailAttempt(World, ops[c], "timeout", "closed")
       IN  SetWorld(f.w) /\ SetOp(c, f.op)
    /\ UNCHANGED <<pipelineVars, parseVars, regVars, config, mcpServers,
                   heartbeat_interval, server_states, now, supPc,
                   connect_index, connect_results>>

\* the operation raises
OpRaise(c, closeOutcome) ==
    /\ ops[c].pc = "invoke"
    /\ closeOutcome \in CloseOutcomes
    /\ LET f == FailAttempt(World, ops[c], "error", closeOutcome)
       IN  SetWorld(f.w) /\ SetOp(c, f.op)
    /\ UNCHANGED <<pipelineVars, parseVars, regVars, config, mcpServers,
                   heartbeat_interval, server_states, now, supPc,
                   connect_index, connect_results>>

\* mutant: the loop makes one attempt more than max_operation_retries
AttemptsLeft_oneMore(attempt) == attempt <= max_operation_retries

\* for attempt in range(1, self.max_operation_retries + 1)
AttemptsLeft(attempt) == attempt < max_operation_retries

\* the sleep after a failed attempt ends: the next attempt, or after the
\* last one mark_dead and the RuntimeError
Wake(c) ==
    /\ ops[c].pc = "sleep"
    /\ IF AttemptsLeft(ops[c].exec.attempt)
         THEN /\ SetOp(c, [ops[c] EXCEPT !.pc = "ensure", !.exec.attempt = @ + 1,
                                          !.exec.reconnects = 0,
                                          !.exec.r_slept = << >>])
              /\ UNCHANGED emitted
         ELSE /\ emitted' = Emitted(emitted, records, ops[c].exec.server, "dead")
              /\ SetOp(c, FinishExec(ops[c], "composite", sessions))
    /\ UNCHANGED <<pipelineVars, parseVars, regVars, config, mcpServers,
                   heartbeat_interval, sessions, server_states, exit_stack,
                   heartbeat_tasks, records, now, leaked, hb_started, supPc,
                   connect_index, connect_results>>

\* the callers of this specification: one at a time
SoleCaller == {1}

InitSupervisor ==
    /\ PipelineInit
    /\ seeded = 0
    /\ ~startup_sweep
    /\ \E c \in SupConfigs : SupInit(c)
    /\ ParseInit

NextSupervisor ==
    \/ ConnectAllStart
    \/ \E how \in ConnectOutcomes(World) : ConnectNext(how)
    \/ DisconnectAll
    \/ \E c \in SoleCaller, name \in OpNames : CallTool(c, name)
    \/ \E c \in SoleCaller : ListAllTools(c)
    \/ \E c \in SoleCaller : EnsureSession(c)
    \/ \E c \in SoleCaller, how \in ConnectOutcomes(World),
          closeOutcome \in CloseOutcomes :
          ReconnectAttempt(c, how, closeOutcome)
    \/ \E c \in SoleCaller : OpReturn(c)
    \/ \E c \in SoleCaller : OpTimeout(c)
    \/ \E c \in SoleCaller, closeOutcome \in CloseOutcomes : OpRaise(c, closeOutcome)
    \/ \E c \in SoleCaller : Wake(c)

SpecSupervisor == InitSupervisor /\ [][NextSupervisor]_vars

\* one connect_all(), then one call_tool per caller for the same local
\* server, the calls interleaved at their awaits
InitConcurrent ==
    /\ PipelineInit
    /\ seeded = 0
    /\ ~startup_sweep
    /\ SupInit([mcpServers |-> <<Filesystem>>, heartbeat_interval |-> 0])
    /\ ParseInit

NextConcurrent ==
    \/ ~exit_stack.created /\ ConnectAllStart
    \/ \E how \in ConnectOutcomes(World) : ConnectNext(how)
    \/ \E c \in Callers : ops[c].kind = "none" /\ CallTool(c, Filesystem.name)
    \/ \E c \in Callers : EnsureSession(c)
    \/ \E c \in Callers, how \in ConnectOutcomes(World) \cap {"spawn_fails", "ok"} :
          ReconnectAttempt(c, how, "closed")
    \/ \E c \in Callers : OpReturn(c)
    \/ \E c \in Callers : OpRaise(c, "closed")
    \/ \E c \in Callers : Wake(c)

SpecConcurrent == InitConcurrent /\ [][NextConcurrent]_vars

\* the supervisor's connection calls on an agent config that has the
\* mcpServers key, or lacks it
InitConfig ==
    /\ PipelineInit
    /\ seeded = 0
    /\ ~startup_sweep
    /\ \E c \in SupConfigs : ManagerInit(c)
    /\ config \in [loaded : {FALSE}, has_mcpServers : BOOLEAN]
    /\ ParseInit

NextConfig ==
    \/ LoadConfig
    \/ ConnectAllStart
    \/ \E how \in ConnectOutcomes(World) : ConnectNext(how)
    \/ DisconnectAll

SpecConfig == InitConfig /\ [][NextConfig]_vars

-----------------------------------------------------------------------------
(* The LivenessRegistry driven directly, as its tests drive it: register,  *)
(* beat, miss, mark_dead and summary in any order while time passes, with  *)
(* or without a state-change callback, which returns or raises.            *)

\* the clock stops here
MaxNow == 3

\* miss() is called on a record with fewer misses than this
MaxMisses == 2

\* the names the callers register, and a name they never register
RegNames == {AxGcp.name}
CallNames == RegNames \cup {Ghost}

\* register(name, timeout=...), in seconds
Timeouts == {1, 2}

CallbackOutcomes == {"returns", "raises"}

\* mutant: alive only before the timeout is reached
IsAlive_strict(record, t) ==
    /\ record.last_heartbeat # -1
    /\ t - record.last_heartbeat < record.timeout

\* LivenessRecord.is_alive
IsAlive(record, t) ==
    /\ record.last_heartbeat # -1
    /\ t - record.last_heartbeat <= record.timeout

\* summary(): an item per record
Summary(recs, t) ==
    [name \in DOMAIN recs |->
        [alive |-> IsAlive(recs[name], t),
         last_heartbeat |-> recs[name].last_heartbeat,
         consecutive_misses |-> recs[name].consecutive_misses]]

\* mutant: an exception of the callback leaves _emit_state
EmitReturns_propagates(cb) == cb = "returns"

\* try: self._state_callback(name, payload) / except Exception: pass
EmitReturns(cb) == TRUE

\* how beat, miss and mark_dead end: they return unless _emit_state raises
\* out of a callback that was called
Mutated(name, cb) ==
    IF name \in DOMAIN records /\ state_callback /\ ~EmitReturns(cb)
      THEN "raised"
      ELSE "returned"

\* async with self._lock: taken on entry, released on return and on raise
Released(result) == FALSE

RegCall(op, name, result) ==
    [NoRegCall EXCEPT !.op = op, !.name = name, !.result = result]

\* a call of beat, miss or mark_dead, with the callback's outcome cb
Mutator(op, name, cb) ==
    [RegCall(op, name, Mutated(name, cb)) EXCEPT
        !.callback = IF name \in DOMAIN records /\ state_callback
                       THEN cb ELSE "none"]

\* register(name, timeout): a new record replaces any record of the name
RegRegister(name, timeout) ==
    /\ records' = Register(records, name, timeout)
    /\ since_beat' = Put(since_beat, name, 0)
    /\ beat_at' = Put(beat_at, name, -1)
    /\ reg_call' = RegCall("register", name, "returned")
    /\ UNCHANGED <<pipelineVars, parseVars, managerVars, now, emitted,
                   state_callback, lock>>

\* await beat(name)
RegBeat(name, cb) ==
    /\ ~lock
    /\ records' = Beat(records, name, now)
    /\ emitted' = Emitted(emitted, records, name, "alive")
    /\ lock' = Released(Mutated(name, cb))
    /\ reg_call' = Mutator("beat", name, cb)
    /\ IF name \in DOMAIN records
         THEN /\ since_beat' = Put(since_beat, name, 0)
              /\ beat_at' = Put(beat_at, name, now)
         ELSE UNCHANGED <<since_beat, beat_at>>
    /\ UNCHANGED <<pipelineVars, parseVars, managerVars, now, state_callback>>

\* await miss(name)
RegMiss(name, cb) ==
    /\ ~lock
    /\ name \in DOMAIN records => records[name].consecutive_misses < MaxMisses
    /\ records' = Miss(records, name)
    /\ emitted' = Emitted(emitted, records, name, "miss")
    /\ lock' = Released(Mutated(name, cb))
    /\ reg_call' = Mutator("miss", name, cb)
    /\ IF name \in DOMAIN records
         THEN since_beat' = [since_beat EXCEPT ![name] = @ + 1]
         ELSE UNCHANGED since_beat
    /\ UNCHANGED <<pipelineVars, parseVars, managerVars, now, state_callback,
                   beat_at>>

\* await mark_dead(name)
RegMarkDead(name, cb) ==
    /\ ~lock
    /\ emitted' = Emitted(emitted, records, name, "dead")
    /\ lock' = Released(Mutated(name, cb))
    /\ reg_call' = Mutator("mark_dead", name, cb)
    /\ UNCHANGED <<pipelineVars, parseVars, managerVars, records, now,
                   state_callback, since_beat, beat_at>>

\* summary()
RegSummary ==
    /\ reg_call' = [RegCall("summary", << >>, "returned")
                       EXCEPT !.summary = Summary(records, now)]
    /\ UNCHANGED <<pipelineVars, parseVars, managerVars, records, now, emitted,
                   state_callback, lock, since_beat, beat_at>>

\* a second passes
Tick ==
    /\ now < MaxNow
    /\ now' = now + 1
    /\ reg_call' = NoRegCall
    /\ UNCHANGED <<pipelineVars, parseVars, managerVars, records, emitted,
                   state_callback, lock, since_beat, beat_at>>

InitRegistry ==
    /\ PipelineInit
    /\ seeded = 0
    /\ ~startup_sweep
    /\ config = [loaded |-> FALSE, has_mcpServers |-> TRUE]
    /\ mcpServers = <<Filesystem>>
    /\ heartbeat_interval = 0
    /\ sessions = EmptyDict
    /\ server_states = EmptyDict
    /\ exit_stack = NoStack
    /\ heartbeat_tasks = EmptyDict
    /\ records = EmptyDict
    /\ now = 0
    /\ emitted = {}
    /\ leaked = {}
    /\ hb_started = {}
    /\ supPc = "idle"
    /\ connect_index = 0
    /\ ops = [c \in Callers |-> NoOp]
    /\ last_api = NoApi
    /\ connect_results = << >>
    /\ \E callback \in BOOLEAN : RegInit(callback)
    /\ ParseInit

NextRegistry ==
    \/ \E name \in RegNames, timeout \in Timeouts : RegRegister(name, timeout)
    \/ \E name \in CallNames, cb \in CallbackOutcomes : RegBeat(name, cb)
    \/ \E name \in CallNames, cb \in CallbackOutcomes : RegMiss(name, cb)
    \/ \E name \in CallNames, cb \in CallbackOutcomes : RegMarkDead(name, cb)
    \/ RegSummary
    \/ Tick

SpecRegistry == InitRegistry /\ [][NextRegistry]_vars

-----------------------------------------------------------------------------
(* QueueManager._parse_message.  Texts are tuples of characters; "bullet"  *)
(* stands for the one character U+2022.                                     *)

\* self.agent_name, another agent, and an agent whose name begins with
\* this agent's name
agent_name == <<"a">>
OtherAgent == <<"b">>
LongerAgent == <<"a", "b">>

\* what \s matches, of the characters used here
Whitespace == {" ", "\n"}

\* the character classes \s, \S, [a-f0-9-] and [^:]
IsSpace(c) == c \in Whitespace
NonSpace(c) == c \notin Whitespace
IsIdChar(c) ==
    c \in {"a", "b", "c", "d", "e", "f", "0", "1", "2", "3", "4", "5",
           "6", "7", "8", "9", "-"}
NotColon(c) == c # ":"

\* the end of the longest run of characters of the class InClass that
\* begins at from; from - 1 when there is none: a greedy character class
RunEnd(text, from, InClass(_)) ==
    CHOOSE k \in (from - 1)..Len(text) :
        /\ \A j \in from..k : InClass(text[j])
        /\ k = Len(text) \/ ~InClass(text[k + 1])

\* the leftmost position of a set of positions, 0 when it is empty
Leftmost(positions) ==
    IF positions = {} THEN 0
    ELSE CHOOSE i \in positions : \A j \in positions : i <= j

\* re.search(rf"(?:^|[\s\n])@{re.escape(self.agent_name)}(?:[\s\n]|$)", content)
DirectMention(content) ==
    LET pattern == <<"@">> \o agent_name
    IN  \E i \in 1..Len(content) :
            LET j == i + Len(pattern) - 1
            IN  /\ j <= Len(content)
                /\ SubSeq(content, i, j) = pattern
                /\ i = 1 \/ content[i - 1] \in Whitespace
                /\ j = Len(content) \/ content[j + 1] \in Whitespace

\* return None
None == [kind |-> "none"]

\* return (message_id, sender, content)
Parsed(id, sender, content) ==
    [kind |-> "message", id |-> id, sender |-> sender, content |-> content]

\* the loop over result.messages: the first message that mentions this
\* agent directly and is not from this agent
RECURSIVE ParseMessages(_)
ParseMessages(messages) ==
    IF messages = << >> THEN None
    ELSE LET msg == Head(messages)
         IN  IF DirectMention(msg.content) /\ msg.sender_name # agent_name
               THEN Parsed(msg.id, msg.sender_name, msg.content)
               ELSE ParseMessages(Tail(messages))

\* the branch of result.events: the first event as it is
ParseEvents(events) ==
    Parsed(events[1].id, events[1].sender_name, events[1].content)

\* re.search(r"\[id:([a-f0-9-]+)\]", messages_data): where the leftmost
\* match begins, 0 without a match
IdTag == <<"[", "i", "d", ":">>
IdMatchAt(text) ==
    Leftmost({i \in 1..Len(text) :
                 /\ i + Len(IdTag) - 1 <= Len(text)
                 /\ SubSeq(text, i, i + Len(IdTag) - 1) = IdTag
                 /\ LET e == RunEnd(text, i + Len(IdTag), IsIdChar)
                    IN  /\ e >= i + Len(IdTag)
                        /\ e < Len(text)
                        /\ text[e + 1] = "]"})

\* group(1) of that match
IdGroup(text) ==
    LET i == IdMatchAt(text)
    IN  SubSeq(text, i + Len(IdTag), RunEnd(text, i + Len(IdTag), IsIdChar))

\* the end of group(1), [^:]+, of a match of "bullet ([^:]+): (@\S+)\s+(.+)"
\* that begins at i
SenderEnd(text, i) == RunEnd(text, i + 2, NotColon)

\* re.search(r"bullet ([^:]+): (@\S+)\s+(.+)", messages_data): where the
\* leftmost match begins, 0 without a match.  After the mention at least
\* one whitespace character and then at least one character other than a
\* newline have to follow.
MentionMatchAt(text) ==
    Leftmost({i \in 1..Len(text) :
                 /\ i + 1 <= Len(text)
                 /\ text[i] = "bullet"
                 /\ text[i + 1] = " "
                 /\ LET e1 == SenderEnd(text, i)
                        e2 == RunEnd(text, e1 + 4, NonSpace)
                        e3 == RunEnd(text, e2 + 1, IsSpace)
                    IN  /\ e1 >= i + 2
                        /\ e1 + 3 <= Len(text)
                        /\ text[e1 + 1] = ":"
                        /\ text[e1 + 2] = " "
                        /\ text[e1 + 3] = "@"
                        /\ e2 >= e1 + 4
                        /\ e3 >= e2 + 1
                        /\ \E p \in (e2 + 2)..(e3 + 1) :
                               p <= Len(text) /\ text[p] # "\n"})

\* mention_match.group(1)
SenderGroup(text) ==
    LET i == MentionMatchAt(text)
    IN  SubSeq(text, i + 2, SenderEnd(text, i))

WaitSuccess == <<"W", "A", "I", "T", " ", "S", "U", "C", "C", "E", "S", "S">>
NoMentions == <<"N", "o", " ", "m", "e", "n", "t", "i", "o", "n", "s">>

\* the branch of result.content, messages_data being its text
ParseText(messages_data) ==
    IF messages_data = << >> THEN None
    ELSE IF IsInfix(WaitSuccess, messages_data) \/ IsInfix(NoMentions, messages_data)
      THEN None
    ELSE IF IdMatchAt(messages_data) = 0 THEN None
    ELSE IF MentionMatchAt(messages_data) = 0 THEN None
    ELSE IF ~IsInfix(<<"@">> \o agent_name, messages_data) THEN None
    ELSE IF SenderGroup(messages_data) = agent_name THEN None
    ELSE Parsed(IdGroup(messages_data), SenderGroup(messages_data), messages_data)

\* _parse_message(result)
ParseMessage(result) ==
    IF result.messages # << >> THEN ParseMessages(result.messages)
    ELSE IF result.events # << >> THEN ParseEvents(result.events)
    ELSE ParseText(result.content)

\* the longest list of messages or events in a result explored
MaxItems == 2

\* the contents explored: a direct mention at the start and at the end, the
\* name inside a word, the name as the beginning of a longer name, no
\* mention at all
Contents ==
    { <<"@">> \o agent_name \o <<" ", "h", "i">>,
      <<"h", "i", " ", "@">> \o agent_name,
      <<"x", "@">> \o agent_name \o <<" ", "h", "i">>,
      <<"@">> \o LongerAgent \o <<" ", "h", "i">>,
      <<"h", "i">> }

\* the message objects explored
MessageObjects ==
    [id : {<<"1", "f">>}, sender_name : {agent_name, OtherAgent}, content : Contents]

\* the lists of at most n message objects
RECURSIVE ItemLists(_)
ItemLists(n) ==
    IF n = 0 THEN {<< >>}
    ELSE ItemLists(n - 1) \cup
             {Append(l, m) : l \in {k \in ItemLists(n - 1) : Len(k) = n - 1},
                             m \in MessageObjects}

\* a line of the text format: sender, the mention it begins with, the rest
TextLine(sender, mentioned, rest) ==
    <<"bullet", " ">> \o sender \o <<":", " ", "@">> \o mentioned \o <<" ">>
        \o rest \o <<" ">> \o IdTag \o <<"1", "f", "]">>

\* the texts explored: lines from and to each of the agents, followed by
\* words, by the name inside a word or by a second, direct mention; a line
\* without an id; the status texts; the empty text
Texts ==
    { TextLine(s, m, r) :
          s \in {agent_name, OtherAgent},
          m \in {agent_name, OtherAgent, LongerAgent},
          r \in { <<"h", "i">>,
                  <<"x", "@">> \o agent_name,
                  <<"h", "i", " ", "@">> \o agent_name } }
      \cup { <<"bullet", " ">> \o OtherAgent \o <<":", " ", "@">> \o agent_name
                 \o <<" ", "h", "i">>,
             WaitSuccess \o <<":", " ">> \o IdTag \o <<"1", "f", "]">>,
             NoMentions,
             << >> }

\* the tool results explored, one of each shape
Payloads ==
    {[NoPayload EXCEPT !.messages = l] : l \in ItemLists(MaxItems) \ {<< >>}}
      \cup {[NoPayload EXCEPT !.events = l] : l \in ItemLists(MaxItems) \ {<< >>}}
      \cup {[NoPayload EXCEPT !.content = t] : t \in Texts}

\* parsed = self._parse_message(result)
ParseStep ==
    /\ parse_result = Unparsed
    /\ parse_result' = ParseMessage(payload)
    /\ UNCHANGED <<pipelineVars, supVars, payload>>

InitParser ==
    /\ PipelineInit
    /\ seeded = 0
    /\ ~startup_sweep
    /\ SupInit([mcpServers |-> <<Filesystem>>, heartbeat_interval |-> 0])
    /\ payload \in Payloads
    /\ parse_result = Unparsed

NextParser == ParseStep

SpecParser == InitParser /\ [][NextParser]_vars

-----------------------------------------------------------------------------
(* Properties of the pipeline *)

StatusRank(status) ==
    CASE status = "pending" -> 0
      [] status = "processing" -> 1
      [] status = "processed" -> 2
      [] status = "failed" -> 2

InputRows(input) ==
    {input.queue_messages[i] : i \in 1..Len(input.queue_messages)}
      \cup {[id |-> input.id, timestamp |-> input.timestamp]}
      \cup (IF input.batch_mode
              THEN {input.history_messages[i] : i \in 1..Len(input.history_messages)}
              ELSE {})

StoredRows(s) == {[id |-> s[k].id, timestamp |-> s[k].timestamp] : k \in 1..Len(s)}

\* C1: in every step of the pipeline every stored message stays stored, its
\* status never moves back along pending < processing < processed/failed,
\* and a processed or failed message keeps its status.
C1_StatusMonotone ==
    [][\A k \in 1..Len(store) :
          /\ k <= Len(store')
          /\ store'[k].id = store[k].id
          /\ StatusRank(store'[k].status) >= StatusRank(store[k].status)
          /\ (store[k].status \in {"processed", "failed"}
                => store'[k].status = store[k].status)]_vars

\* a second batch is in flight after the first one failed in the handler,
\* and a message that arrived since is still pending
C1_Witness ==
    /\ procPc = "handler"
    /\ outcome = "handler_error"
    /\ \E k \in 1..Len(store) : store[k].status = "processed"
    /\ \E k \in 1..Len(store) : store[k].status = "processing"
    /\ \E k \in 1..Len(store) : store[k].status = "pending"

\* C2: whenever the processor is between two iterations, every message of
\* the batch it fetched last is processed, however that batch ended.
C2_BatchProcessedBeforeNextIteration ==
    procPc = "loop" =>
        \A i \in 1..Len(all_pending) : RowOf(store, all_pending[i].id).status = "processed"

\* a batch of several messages whose reply send failed
C2_Witness ==
    /\ procPc = "loop"
    /\ outcome = "send_error"
    /\ Len(all_pending) > 1
    /\ \A i \in 1..Len(all_pending) : RowOf(store, all_pending[i].id).status = "processed"

\* C3: no message id is passed to the handler in more than one invocation.
C3_AtMostOneHandlerCall == redelivered = {}

\* the poller received an id again while its batch was with the handler;
\* that batch is done and the next batch, now in flight, does not hold it
C3_Witness ==
    /\ procPc = "handler"
    /\ handler_calls >= 2
    /\ last_check.by = "poller"
    /\ last_check.kind = "duplicate"
    /\ last_check.was = "processing"
    /\ RowOf(store, last_check.id).status = "processed"
    /\ last_check.id \notin Ids(all_pending)

\* C4: every message in the argument of a handler call in flight (current,
\* history_messages, queue_messages) is a row of the store, claimed for
\* this call.
C4_HandlerInputPersisted ==
    procPc = "handler" =>
        /\ InputRows(handler_input) \subseteq StoredRows(store)
        /\ \A r \in InputRows(handler_input) : RowOf(store, r.id).status = "processing"

\* a batch whose history holds a mention that was stored during this run
C4_Witness ==
    /\ procPc = "handler"
    /\ handler_input.batch_mode
    /\ \E i \in 1..Len(handler_input.history_messages) :
          handler_input.history_messages[i].id > seeded

PendingRows(s) ==
    {[id |-> s[k].id, timestamp |-> s[k].timestamp] :
        k \in {j \in 1..Len(s) : s[j].status = "pending"}}

\* C5: in every processor step that fetches a batch and calls the handler,
\* with B the number of pending messages at that step: the order is "asc"
\* if B > 100 and "desc" otherwise (so "desc" at B = 100, "asc" at B = 101),
\* whatever the order of the batch before; the batch is the first
\* min(B, 100) pending messages in that order of timestamps.
C5_OrderFromBacklogAlone ==
    [][(procPc = "loop" /\ procPc' = "handler") =>
          LET B     == Cardinality(PendingRows(store))
              batch == all_pending'
              n     == Len(batch)
              rest  == PendingRows(store) \ {batch[i] : i \in 1..n}
          IN  /\ backlog' = B
              /\ processing_order' = IF B > BacklogThreshold THEN "asc" ELSE "desc"
              /\ (B = BacklogThreshold => processing_order' = "desc")
              /\ (B = BacklogThreshold + 1 => processing_order' = "asc")
              /\ n = Min(B, BatchLimit)
              /\ \A i \in 1..n : batch[i] \in PendingRows(store)
              /\ \A i \in 1..(n - 1) :
                    IF processing_order' = "asc"
                      THEN batch[i].timestamp < batch[i + 1].timestamp
                      ELSE batch[i].timestamp > batch[i + 1].timestamp
              /\ \A r \in rest :
                    IF processing_order' = "asc"
                      THEN r.timestamp > batch[n].timestamp
                      ELSE r.timestamp < batch[n].timestamp]_vars

\* a FILO batch is in flight right after a FIFO batch
C5_Witness ==
    /\ procPc = "handler"
    /\ order_log = <<"asc", "desc">>
    /\ processing_order = "desc"
    /\ backlog <= BacklogThreshold

\* C6: while a handler call for a batch of more than one message is in
\* flight, its argument has current = the first fetched message (the newest
\* of the batch under FILO, the oldest under FIFO), history_messages = the
\* other fetched messages in ascending timestamp order, and queue_messages
\* = the fetched messages in fetch order.
C6_BatchInput ==
    (procPc = "handler" /\ Len(all_pending) > 1) =>
        LET n    == Len(all_pending)
            hist == handler_input.history_messages
        IN  /\ handler_input.batch_mode
            /\ handler_input.batch_size = n
            /\ handler_input.id = all_pending[1].id
            /\ handler_input.timestamp = all_pending[1].timestamp
            /\ \A i \in 1..n :
                  IF processing_order = "desc"
                    THEN all_pending[i].timestamp <= handler_input.timestamp
                    ELSE all_pending[i].timestamp >= handler_input.timestamp
            /\ Len(hist) = n - 1
            /\ {hist[i] : i \in 1..(n - 1)} = {all_pending[i] : i \in 2..n}
            /\ \A i \in 1..(n - 2) : hist[i].timestamp < hist[i + 1].timestamp
            /\ handler_input.queue_messages = all_pending
            /\ handler_input.queue_messages[1].id = handler_input.id

\* 150 pending messages t = 1..150: current is t = 1, the history t = 2..100
C6_Witness ==
    /\ procPc = "handler"
    /\ backlog = 150
    /\ processing_order = "asc"
    /\ handler_input.batch_mode
    /\ handler_input.timestamp = 1
    /\ Len(handler_input.history_messages) = 99
    /\ handler_input.history_messages[1].timestamp = 2
    /\ handler_input.history_messages[99].timestamp = 100

\* C7: while a reply send is in flight, its parent_message_id is the id of
\* the message of the batch with the greatest timestamp.
C7_ReplyToFreshest ==
    procPc = "send" =>
        \A i \in 1..Len(all_pending) :
            all_pending[i].id = last_send.parent_message_id
              => \A j \in 1..Len(all_pending) :
                    all_pending[j].timestamp <= all_pending[i].timestamp

\* C8: a check (of the poller or of the sweep) that delivers an id already
\* in the store: store_message returns false, the table is unchanged (its
\* rows, so their number and every status), and the poller counts no error
\* and goes on to its next poll, the sweep to its next iteration without
\* counting the message as fetched.
C8_DuplicateStoreIsNoOp ==
    [][/\ (/\ pollerPc = "call"
           /\ pollerPc' \notin {"call", "stopped"}
           /\ last_check'.id \in StoredIds(store))
          => /\ last_check'.kind = "duplicate"
             /\ store' = store
             /\ poll_consecutive_errors' = poll_consecutive_errors
             /\ poll_backoff' = poll_backoff
             /\ pollerPc' = "loop"
       /\ (/\ runPc = "sweep_call"
           /\ runPc' # "done"
           /\ last_check'.id \in StoredIds(store))
          => /\ last_check'.kind = "duplicate"
             /\ store' = store
             /\ fetched' = fetched
             /\ runPc' = "sweep_top"]_vars

\* the poller was handed an id whose batch was with the handler, stored
\* nothing, and has issued its next check
C8_Witness ==
    /\ pollerPc = "call"
    /\ last_check.by = "poller"
    /\ last_check.kind = "duplicate"
    /\ last_check.was = "processing"
    /\ RowOf(store, last_check.id).status = "processing"

-----------------------------------------------------------------------------
(* Properties of the poller's backoff (SpecPoller) *)

BackoffLadder == <<5, 10, 20, 40, 60, 60>>

\* the sleeps of the failures of the current streak that are not rate limits:
\* the k-th of them, when the streak began with backoff base
LadderSleep(base, k) == Min(base * (2 ^ (k - 1)), poll_backoff_max)

\* C9: the backoff is always one of 5, 10, 20, 40, 60; it is 5 at the start;
\* in a run of failed polls without a rate limit the k-th failure sleeps
\* min(base * 2^(k-1), 60), base being the backoff the run began with, which
\* for base = 5 is the ladder 5, 10, 20, 40, 60, 60, ...; after the sleep
\* the backoff is doubled, up to 60.
C9_BackoffLadder ==
    /\ poll_backoff \in {5, 10, 20, 40, 60}
    /\ (pollerPc = "idle" => poll_backoff = 5)
    /\ (pollerPc = "wait" /\ error_type # "rate_limit" /\ streak.rate = 0) =>
          /\ wait_seconds = LadderSleep(streak.base, streak.conn)
          /\ wait_seconds <= 60
          /\ poll_backoff = wait_seconds
          /\ (streak.base = 5 =>
                wait_seconds = BackoffLadder[Min(streak.conn, Len(BackoffLadder))])
    /\ (pollerPc \in {"loop", "call"} /\ streak.rate = 0) =>
          poll_backoff = Min(streak.base * (2 ^ streak.conn), 60)

\* six connection failures in a row from a fresh poller: the sixth sleeps 60 again
C9_Witness ==
    /\ pollerPc = "wait"
    /\ error_type = "connection_error"
    /\ streak = [base |-> 5, conn |-> 6, rate |-> 0]
    /\ poll_consecutive_errors = 6
    /\ wait_seconds = 60

C11_SuccessfulPollResets ==
    (/\ pollerPc = "loop"
     /\ last_check.by = "poller"
     /\ last_check.kind \in {"empty", "stored", "duplicate"}) =>
        /\ poll_backoff = PollBackoffInitial
        /\ poll_consecutive_errors = 0

(***************************************************************************)
(* Properties of the session supervisor                                    *)
(***************************************************************************)

\* C12: a call whose attempts fail k < max_operation_retries times and whose
\* next attempt succeeds returns that result: the operation was invoked
\* once per failure of its own plus once for the success, within
\* max_operation_retries attempts, and the supervisor gives up with the
\* composite error only when every one of the attempts has failed.
C12_RecoversWithinRetries ==
    \A c \in Callers :
        LET e == ops[c].last_exec
        IN  /\ e.result = "returned" =>
                  /\ e.invocations = e.op_failures + 1
                  /\ e.op_failures < max_operation_retries
                  /\ e.attempt <= max_operation_retries
            /\ e.result = "composite" => e.attempt = max_operation_retries

\* two failures of the operation, then the third attempt returns
C12_Witness ==
    \E c \in Callers :
        /\ ops[c].last_exec.result = "returned"
        /\ ops[c].last_exec.op_failures = 2
        /\ ops[c].last_exec.invocations = 3

\* C13: when every one of the max_operation_retries attempts of a call has
\* failed, the server is marked dead in the liveness registry, the caller
\* gets the composite error naming the attempt count and the last error, and
\* the operation was invoked at most max_operation_retries times.
C13_ExhaustedMarkedDead ==
    \A c \in Callers :
        LET e == ops[c].last_exec
        IN  (/\ e.op_failures = max_operation_retries
             /\ e.result \in {"composite", "close_error"}) =>
                /\ e.result = "composite"
                /\ <<e.server, "dead">> \in emitted
                /\ e.invocations <= max_operation_retries

\* C14: a failure of the operation other than a timeout, with attempts
\* remaining, removes the server's session from the table and closes it,
\* records a liveness miss and goes on to the next attempt; the eviction
\* never ends the retry loop.
C14_EvictsAndRetries ==
    \A c \in Callers :
        /\ ops[c].last_exec.result # "close_error"
        /\ (/\ ops[c].pc = "sleep"
            /\ ops[c].exec.last_failure = "error") =>
               /\ ops[c].exec.closed
               /\ ops[c].exec.server \notin DOMAIN sessions
               /\ <<ops[c].exec.server, "miss">> \in emitted

\* C15: a timeout of the operation, with attempts remaining, records a
\* liveness miss and is retried with the session table unchanged: the
\* session is not evicted and serves the next attempt without a reconnect.
C15_TimeoutKeepsSession ==
    \A c \in Callers :
        (/\ ops[c].pc = "sleep"
         /\ ops[c].exec.last_failure = "timeout") =>
            /\ ops[c].exec.server \in DOMAIN sessions
            /\ sessions[ops[c].exec.server] = ops[c].session
            /\ <<ops[c].exec.server, "miss">> \in emitted

\* C16 as stated: a call that succeeds on its first attempt leaves the
\* session table as the call found it.
C16_FirstAttemptKeepsTable ==
    \A c \in Callers :
        (/\ ops[c].pc = "done"
         /\ ops[c].last_exec.result = "returned"
         /\ ops[c].last_exec.attempt = 1) =>
            sessions = ops[c].last_exec.table

\* C16, amended: a call that succeeds on its first attempt leaves every
\* session the table held when the call began in place and identical; the
\* only entry it can add is the one of its own server, connected on demand
\* within that first attempt.
C16_FirstAttemptKeepsSessions ==
    \A c \in Callers :
        LET e == ops[c].last_exec
        IN  (/\ ops[c].pc = "done"
             /\ e.result = "returned"
             /\ e.attempt = 1) =>
                /\ \A name \in DOMAIN e.table :
                       /\ name \in DOMAIN sessions
                       /\ sessions[name] = e.table[name]
                /\ DOMAIN sessions \ DOMAIN e.table \subseteq {e.server}
                /\ e.reconnects = 0 => sessions = e.table

\* a first-attempt success on a server whose session the call found
C16_Witness ==
    \E c \in Callers :
        /\ ops[c].pc = "done"
        /\ ops[c].last_exec.result = "returned"
        /\ ops[c].last_exec.attempt = 1
        /\ ops[c].last_exec.server \in DOMAIN ops[c].last_exec.table
        /\ sessions = ops[c].last_exec.table

\* the condition of C17 on a server's configuration, argument by argument
NamedRemote(name, args) ==
    \/ Len(name) >= 3 /\ SubSeq(name, 1, 3) = <<"a", "x", "-">>
    \/ \E i \in 1..Len(args) : IsInfix(McpRemote, args[i])

\* C17: a session the supervisor has connected, in connect_all or in a
\* reconnect, had a heartbeat started for it if and only if the server's
\* name starts with ax- or its argument list contains mcp-remote; with a
\* positive interval every such server has a running heartbeat, and a local
\* server has none whatever the interval.
C17_HeartbeatOnlyRemote ==
    /\ \A name \in DOMAIN sessions :
           /\ name \in DOMAIN server_states
           /\ sessions[name] \in hb_started <=>
                  NamedRemote(name, server_states[name].args)
           /\ (heartbeat_interval > 0 /\ NamedRemote(name, server_states[name].args))
                  => name \in DOMAIN heartbeat_tasks
    /\ \A name \in DOMAIN heartbeat_tasks :
           /\ name \in DOMAIN server_states
           /\ NamedRemote(name, server_states[name].args)

\* a server remote by its arguments only, reconnected by a call, with its
\* heartbeat running
C17_Witness ==
    /\ heartbeat_interval > 0
    /\ \E c \in Callers :
           LET e == ops[c].last_exec
           IN  /\ e.reconnects > 0
               /\ e.result = "returned"
               /\ e.server \in DOMAIN sessions
               /\ e.server \in DOMAIN heartbeat_tasks
               /\ sessions[e.server] \in hb_started
               /\ ~StartsWith(e.server, AxPrefix)

\* the session objects that are open: those of the current exit stack and
\* those of the exit stacks connect_all() replaced
OpenResources == Contexts(exit_stack) \cup leaked

\* C18: a disconnect_all() right after a disconnect_all() changes nothing:
\* the session table, the server-state table, the running heartbeats and
\* the open resources are after the second call what they were after the
\* first.
C18_SecondDisconnectNoOp ==
    [][(/\ last_api.name = "disconnect_all"
        /\ last_api'.name = "disconnect_all"
        /\ last_api'.times = 2) =>
           /\ sessions' = sessions
           /\ server_states' = server_states
           /\ heartbeat_tasks' = heartbeat_tasks
           /\ OpenResources' = OpenResources]_vars

\* a second disconnect_all() has returned on a supervisor that had connected
C18_Witness ==
    /\ last_api = [name |-> "disconnect_all", times |-> 2, cycle |-> FALSE,
                  raised |-> FALSE]
    /\ exit_stack.created
    /\ sessions = EmptyDict

\* C19: when disconnect_all() has returned, whatever the supervisor did
\* before, the session table and the server-state table are empty and no
\* heartbeat runs; when a connect_all() has returned, also one that follows
\* a disconnect_all(), the server-state table has an entry for each
\* configured server and the session table one for each server whose
\* connect succeeded.
C19_DisconnectClearsConnectRefills ==
    /\ last_api.name = "disconnect_all" =>
           /\ sessions = EmptyDict
           /\ server_states = EmptyDict
           /\ heartbeat_tasks = EmptyDict
           /\ Contexts(exit_stack) = {}
    /\ last_api.name = "connect_all" =>
           /\ DOMAIN server_states = ConfiguredNames
           /\ Len(connect_results) = Len(mcpServers)
           /\ \A i \in 1..Len(mcpServers) :
                  connect_results[i] =>
                      /\ mcpServers[i].name \in DOMAIN sessions
                      /\ server_states[mcpServers[i].name].session =
                             sessions[mcpServers[i].name]

\* a connect_all() that followed a disconnect_all() has connected two servers
C19_Witness ==
    /\ last_api.name = "connect_all"
    /\ last_api.cycle
    /\ Cardinality(DOMAIN sessions) = 2
    /\ DOMAIN heartbeat_tasks # {}

AliveNow == [name \in DOMAIN records |-> IsAlive(records[name], now)]

\* C21: summary() reports a record alive exactly when a beat was made since
\* its registration and no more than its timeout has passed since the latest
\* one, so not alive without a beat and not alive once the timeout has
\* elapsed; and a miss() or mark_dead() call changes no record's alive value.
C21_AliveIffRecentBeat ==
    /\ [](reg_call.op = "summary" =>
            /\ DOMAIN reg_call.summary = DOMAIN records
            /\ \A name \in DOMAIN reg_call.summary :
                   reg_call.summary[name].alive <=>
                       /\ beat_at[name] # -1
                       /\ now - beat_at[name] <= records[name].timeout)
    /\ [][reg_call'.op \in {"miss", "mark_dead"} => AliveNow' = AliveNow]_vars

\* summary() reports alive a record whose latest beat is exactly its timeout
\* ago and which has missed since
C21_Witness ==
    /\ reg_call.op = "summary"
    /\ \E name \in DOMAIN reg_call.summary :
           /\ reg_call.summary[name].alive
           /\ reg_call.summary[name].consecutive_misses > 0
           /\ now - beat_at[name] = records[name].timeout

\* C22: for a registered name, consecutive_misses is the number of miss()
\* calls made for it since its latest beat(), or since its registration when
\* no beat() followed: beat sets it to 0, each miss adds 1.
C22_MissesSinceBeat ==
    /\ DOMAIN since_beat = DOMAIN records
    /\ \A name \in DOMAIN records :
           records[name].consecutive_misses = since_beat[name]

\* two misses counted after a beat
C22_Witness ==
    /\ reg_call.op = "miss"
    /\ reg_call.name \in DOMAIN records
    /\ beat_at[reg_call.name] # -1
    /\ records[reg_call.name].consecutive_misses = 2

\* C23: when the state-change callback raises, beat(), miss() and
\* mark_dead() return normally all the same, the record keeps what the call
\* wrote (the beat's time and zero misses, the miss's count) and the lock is
\* free, so that the next registry call can take it.
C23_CallbackNeverPropagates ==
    /\ ~lock
    /\ reg_call.op \in {"beat", "miss", "mark_dead"} =>
           /\ reg_call.result = "returned"
           /\ reg_call.callback = "raises" =>
                  /\ reg_call.name \in DOMAIN records
                  /\ <<reg_call.name,
                       CASE reg_call.op = "beat" -> "alive"
                         [] reg_call.op = "miss" -> "miss"
                         [] OTHER -> "dead">> \in emitted
                  /\ reg_call.op = "beat" =>
                         /\ records[reg_call.name].last_heartbeat = now
                         /\ records[reg_call.name].consecutive_misses = 0
                  /\ reg_call.op = "miss" =>
                         /\ records[reg_call.name].consecutive_misses >= 1
                         /\ records[reg_call.name].consecutive_misses =
                                since_beat[reg_call.name]

\* the callback raised in a miss() that was the second miss() in a row
C23_Witness ==
    /\ reg_call.op = "miss"
    /\ reg_call.callback = "raises"
    /\ reg_call.result = "returned"
    /\ records[reg_call.name].consecutive_misses = 2
    /\ <<reg_call.name, "dead">> \in emitted

-----------------------------------------------------------------------------
(* Properties of the processor's gates, replies and failures, and of the  *)
(* startup sweep                                                           *)

\* C24: a pass of the processor that finds the kill-switch file, or finds
\* the agent paused without auto-resume releasing it, fetches nothing,
\* marks no message processing or processed, does not call the handler and
\* sends nothing; it ends back at the top of the loop, before the gates.
C24_ClosedGateHoldsProcessor ==
    [][(/\ procPc = "loop"
        /\ outcome' \in {"kill_switch", "paused"}
        /\ outcome' # outcome)
         => /\ procPc' = "loop"
            /\ store' = store
            /\ all_pending' = all_pending
            /\ backlog' = backlog
            /\ handler_calls' = handler_calls
            /\ handler_input' = handler_input
            /\ handled' = handled
            /\ last_send' = last_send
            /\ sends' = 0]_vars

\* the processor is held at the pause gate after it has handled a batch,
\* while a message is waiting in the store
C24_Witness ==
    /\ procPc = "loop"
    /\ outcome = "paused"
    /\ handler_calls >= 1
    /\ \E k \in 1..Len(store) : store[k].status = "pending"

\* C25: a batch whose handler response is, once made a string, empty or
\* blank gets no reply and all its messages are processed; any other
\* response gets exactly one reply, whose content is that string.
C25_ReplyIffContent ==
    /\ sends <= 1
    /\ (procPc = "loop" /\ response # NoResponse /\ ToStr(response) \in {"", "  "}) =>
           /\ sends = 0
           /\ outcome = "no_response"
           /\ \A i \in 1..Len(all_pending) :
                  RowOf(store, all_pending[i].id).status = "processed"
    /\ (procPc \in {"loop", "send"} /\ response # NoResponse
           /\ ToStr(response) \notin {"", "  "}) =>
           /\ sends = 1
           /\ last_send = [parent_message_id |-> ReplyTo(all_pending).id,
                           content |-> ToStr(response)]
    /\ procPc = "send" => response # NoResponse /\ ToStr(response) \notin {"", "  "}

\* the handler answered a batch of several messages with blanks
C25_Witness ==
    /\ procPc = "loop"
    /\ response = [is_str |-> TRUE, text |-> "  "]
    /\ sends = 0
    /\ Len(all_pending) > 1
    /\ \A i \in 1..Len(all_pending) :
           RowOf(store, all_pending[i].id).status = "processed"

\* C26: the processor ends only when run() is cancelled.  A step in which
\* the handler or the reply send raises leaves the processor at the top of
\* its loop with every message of the batch processed; a processed message
\* stays processed and a batch is fetched from pending rows only, so the
\* failed batch is never fetched or passed to the handler again.
C26_FailureNeverStopsProcessor ==
    /\ [](procPc = "stopped" => runPc = "done")
    /\ [](redelivered = {})
    /\ [][(/\ procPc \in {"handler", "send"}
           /\ procPc' = "loop"
           /\ outcome' \in {"handler_error", "send_error"})
            => \A i \in 1..Len(all_pending) :
                   RowOf(store', all_pending[i].id).status = "processed"]_vars
    /\ [][\A k \in 1..Len(store) :
              store[k].status = "processed" => store'[k].status = "processed"]_vars
    /\ [][(procPc = "loop" /\ procPc' = "handler")
            => \A i \in 1..Len(all_pending') :
                   RowOf(store, all_pending'[i].id).status = "pending"]_vars

\* after a batch failed in its reply send, the next batch, which holds the
\* message the poller stored last, has been handled and is being replied to
C26_Witness ==
    /\ procPc = "send"
    /\ outcome = "send_error"
    /\ last_check.by = "poller"
    /\ last_check.kind = "stored"
    /\ last_check.id \in Ids(all_pending)
    /\ \E k \in 1..Len(store) :
           store[k].status = "processed" /\ store[k].id \notin Ids(all_pending)

\* C27: the sweep ends and the poller and the processor start.  The sweep
\* makes a remote check only below the iteration cap, so at most 200 of
\* them, whatever the limit and however many mentions the server has; a
\* check that raises ends the sweep and starts the poller and the processor.
C27_SweepTerminates ==
    /\ <>(runPc = "tasks" /\ pollerPc = "loop" /\ procPc = "loop")
    /\ [](runPc = "sweep_call" => iteration + 1 <= max_iterations)
    /\ [](iteration <= max_iterations)
    /\ [][(runPc = "sweep_top" /\ iteration >= max_iterations)
            => runPc' \in {"tasks", "done"}]_vars
    /\ [][(runPc = "sweep_call" /\ last_check'.by = "sweep"
             /\ last_check'.kind = "error")
            => /\ runPc' = "tasks"
               /\ pollerPc' = "loop"
               /\ procPc' = "loop"]_vars

\* an unlimited sweep after its 200th check, every one of which returned a
\* mention
C27_Witness ==
    /\ runPc = "sweep_top"
    /\ startup_sweep_limit = 0
    /\ iteration = max_iterations
    /\ last_check.by = "sweep"
    /\ last_check.kind \in {"stored", "duplicate"}

-----------------------------------------------------------------------------
(* Properties of run() and of the mention parser *)

\* C30: once run() has returned, neither the poller nor the processor nor
\* the heartbeat task of this pipeline is still running: each has ended or
\* was never started.
C30_AllFinishedBeforeReturn ==
    runPc = "done" =>
        /\ pollerPc \in {"idle", "stopped", "failed"}
        /\ procPc \in {"idle", "stopped"}
        /\ hbPc \in {"disabled", "idle", "stopped"}

\* C28: whatever the shape of the payload, a mention whose sender is this
\* agent is never what _parse_message returns.
C28_SelfMentionNeverParsed ==
    parse_result.kind = "message" => parse_result.sender # agent_name

\* C29: whatever the shape of the payload, what _parse_message returns has
\* a direct mention of this agent in its content: @ and the name at the
\* start or after whitespace, followed by whitespace or the end.
C29_OnlyDirectMentionParsed ==
    parse_result.kind = "message" => DirectMention(parse_result.content)

-----------------------------------------------------------------------------
(* Properties of the supervisor's config, registrations and sessions *)

\* C31: a supervisor whose agent config lacks the mcpServers key never
\* connects: load_config() raises, and every connect_all(), the first one and
\* any later one, raises instead of completing with zero servers
C31_MissingKeyAlwaysRaises ==
    ~config.has_mcpServers =>
        /\ supPc = "idle"
        /\ sessions = EmptyDict
        /\ last_api.name \in {"load_config", "connect_all"} => last_api.raised

\* C32: connecting a session registers it in the liveness registry: a server
\* that has a session in the table has a record, so summary() has an item
\* for it and the beat issued on connect has emitted its alive state
C32_ConnectRegisters ==
    \A name \in DOMAIN sessions :
        /\ name \in DOMAIN Summary(records, now)
        /\ <<name, "alive">> \in emitted

\* C37: the session table only holds sessions whose latest connect fully
\* succeeded: when connect_all() has returned, a server whose connect
\* reported failure has no entry in the session table and no heartbeat
C37_FailedConnectLeavesNoSession ==
    last_api.name = "connect_all" =>
        \A i \in 1..Len(connect_results) :
            ~connect_results[i] =>
                /\ mcpServers[i].name \notin DOMAIN sessions
                /\ mcpServers[i].name \notin DOMAIN heartbeat_tasks

\* C38: when disconnect_all() has returned, every session the supervisor
\* opened is closed: those of connect_all(), those of reconnects, the evicted
\* ones, and those of an earlier connect_all() that was followed by another
\* connect_all() without a disconnect_all() in between
C38_DisconnectClosesEverything ==
    last_api.name = "disconnect_all" => OpenResources = {}

\* C34: a reconnect inside _ensure_session makes attempts 1..
\* max_operation_retries in order and sleeps reconnect_backoff * 2^(attempt-1)
\* before each; the operation is invoked right after the first connect that
\* succeeds; the attempt fails for want of a session only after all
\* max_operation_retries connects; and a call that finds the session in the
\* table makes no connect in its first attempt
C34_ReconnectSchedule ==
    \A c \in Callers :
        LET e == ops[c].exec
        IN  /\ e.reconnects <= max_operation_retries
            /\ Len(e.r_slept) = e.reconnects
            /\ \A i \in 1..Len(e.r_slept) :
                   e.r_slept[i] = reconnect_backoff * 2^(i - 1)
            /\ ops[c].pc = "reconnect" => ops[c].r_attempt = e.reconnects + 1
            /\ (ops[c].pc = "invoke" /\ e.reconnects > 0) =>
                   /\ e.server \in DOMAIN sessions
                   /\ sessions[e.server] = ops[c].session
                   /\ server_states[e.server].last_error = "none"
            /\ (/\ ops[c].pc = "sleep"
                /\ e.last_failure = "no_session"
                /\ e.server \in DOMAIN server_states) =>
                   e.reconnects = max_operation_retries
            /\ (e.attempt = 1 /\ e.server \in DOMAIN e.table) =>
                   e.reconnects = 0

\* the third connect of a reconnect succeeded, after sleeps of 2, 4 and 8
\* seconds, and the operation is invoked on the new session
C34_Witness ==
    \E c \in Callers :
        /\ ops[c].pc = "invoke"
        /\ ops[c].exec.r_slept = <<2, 4, 8>>
        /\ ops[c].exec.server \in DOMAIN sessions

\* C35: _execute_with_retry sleeps only between attempts: reconnect_backoff
\* * k after failed attempt k and before attempt k + 1, not after an attempt
\* that succeeded, and a call whose max_operation_retries attempts all failed
\* has slept max_operation_retries - 1 times when it raises
C35_SleepsOnlyBetweenAttempts ==
    \A c \in Callers :
        LET e == ops[c].last_exec
        IN  /\ \A k \in 1..Len(e.slept) : e.slept[k] = k
            /\ e.result = "returned" => Len(e.slept) = e.attempt - 1
            /\ e.result = "composite" =>
                   Len(e.slept) = max_operation_retries - 1

\* C39: calls of _execute_with_retry that run concurrently for the same
\* server share the one session of the table: two calls whose operation is
\* in flight were never each given a session of their own, and no call has
\* closed the session on which the operation of another call is in flight
C39_ConcurrentCallsShareSession ==
    \A c1, c2 \in Callers :
        (/\ c1 # c2
         /\ ops[c2].pc = "invoke"
         /\ ops[c1].exec.server = ops[c2].exec.server) =>
            /\ ops[c1].pc = "invoke" => ops[c1].session = ops[c2].session
            /\ (ops[c1].pc = "sleep" /\ ops[c1].exec.closed) =>
                   ops[c1].session # ops[c2].session

-----------------------------------------------------------------------------
(* Properties of the sweep's limit, of draining and of stopping *)

\* C36: with startup_sweep_limit = L > 0 the startup sweep makes at most L
\* iterations: at most L remote checks, the one in flight included, and at
\* most L stored messages; and a check without a relevant mention ends it
C36_SweepWithinLimit ==
    /\ (runPc \in {"sweep_top", "sweep_call"} /\ startup_sweep_limit > 0) =>
           /\ fetched <= startup_sweep_limit
           /\ iteration + (IF runPc = "sweep_call" THEN 1 ELSE 0)
                  <= startup_sweep_limit
    /\ (last_check.by = "sweep" /\ last_check.kind = "empty") =>
           runPc \notin {"sweep_top", "sweep_call"}

\* C40: no message is left in status processing when the processor has
\* stopped: a batch whose handler call or reply send was in flight when the
\* task was cancelled is processed, or pending again
C40_NoneLeftProcessing ==
    procPc = "stopped" =>
        \A k \in 1..Len(store) : store[k].status # "processing"

\* the messages followed from pending to processed: the oldest, the last of
\* the first batch of a drain and the first one after it, the newest of the
\* backlog, and the first and the last one the poller adds
FollowedIds ==
    {1, BatchLimit, BatchLimit + 1, LargestBacklog, LargestBacklog + 1,
     LargestBacklog + MaxNew}

HasStatus(id, status) ==
    \E k \in 1..Len(store) : store[k].id = id /\ store[k].status = status

\* C33: no old message starves while the processor keeps running: every
\* fetch takes the oldest pending messages, so that each message it leaves
\* pending is newer than each one it takes, whichever order it chose; and
\* every message stored as pending is eventually marked processed, whatever
\* the poller adds meanwhile: again and again every stored message is
\* processed, and each followed message that is pending gets processed
C33_NoOldMessageStarves ==
    /\ [][(procPc = "loop" /\ procPc' = "handler") =>
            \A j, k \in 1..Len(store) :
                (/\ store[j].status = "pending"
                 /\ store'[j].status = "processing"
                 /\ store[k].status = "pending"
                 /\ store'[k].status = "pending") =>
                    store[j].timestamp < store[k].timestamp]_vars
    /\ \A id \in FollowedIds :
           HasStatus(id, "pending") ~> HasStatus(id, "processed")
    /\ []<>(\A k \in 1..Len(store) : store[k].status = "processed")

\* a backlog above the threshold is being drained oldest first: the oldest
\* message is processed while newer ones, one of them stored by the poller
\* since, are still pending
C33_Witness ==
    /\ seeded = LargestBacklog
    /\ processing_order = "asc"
    /\ HasStatus(1, "processed")
    /\ HasStatus(LargestBacklog, "pending")
    /\ HasStatus(LargestBacklog + 1, "pending")

====
